---- MODULE Spec2Model ----
(***************************************************************************)
(* portctl: the process-discovery and normalisation layer                  *)
(* (package process: ProcessManager) as a state machine.                   *)
(*                                                                         *)
(* Every ProcessManager call is a stateless query against the live OS, so  *)
(* the state is the call in progress: its name, its arguments together     *)
(* with what the OS answered (the raw tool output, the process table), and *)
(* its result.  Go strings are TLA+ strings read byte by byte with SubSeq;  *)
(* Go's int is taken at 32 bits (a GOARCH=386/arm build).                  *)
(***************************************************************************)
EXTENDS Integers, Sequences, FiniteSets, TLC

VARIABLES pc, op, args, result

\* a run of portctl watch (cmd/watch.go): the shared watchState, the flags,
\* the ticker goroutine, the main goroutine, the signal channel c, the exit
\* status of the process, what a reader of the state last saw, and the
\* record of the run (the state as the last completed update left it, the
\* ticks delivered, the outcome of every periodic discovery call)
VARIABLES watchState, watchFlags, ticker, mainG, sigc, watchExit, seen, watchLog

watchVars == <<watchState, watchFlags, ticker, mainG, sigc, watchExit, seen, watchLog>>

\* a call of scanPorts (cmd/scan.go): its arguments and the limit, the caller
\* (position, loop index, returned slice), the worker goroutines, the results
\* slice, the number of values in the channel sem, the counter of the
\* WaitGroup, and for every slot of results the workers that wrote it
VARIABLES scanCall, scanMain, workers, scanResults, sem, wg, writes

scanVars == <<scanCall, scanMain, workers, scanResults, sem, wg, writes>>

\* a run of portctl interactive (cmd/interactive.go): the program ("off",
\* "running", "quit"), the tuiModel the program holds, and the commands it
\* has started whose message has not come back (loadProcesses and loadStats
\* calls by number, killProcess calls one by one)
VARIABLES program, tui, inflight

tuiVars == <<program, tui, inflight>>

vars == <<pc, op, args, result, watchVars, scanVars, tuiVars>>

(***************************************************************************)
(* Bounds of the model.                                                    *)
(***************************************************************************)
\* data lines in one raw tool output
MaxLines == 2
\* records in a list handed to SortProcesses or FilterProcesses
MaxRecs == 3

(***************************************************************************)
(* package strings / strconv / regexp, as far as the manager uses them.    *)
(***************************************************************************)
Char(s, i) == SubSeq(s, i, i)

Digits == {"0", "1", "2", "3", "4", "5", "6", "7", "8", "9"}

DigitVal(c) ==
  CASE c = "0" -> 0 [] c = "1" -> 1 [] c = "2" -> 2 [] c = "3" -> 3
    [] c = "4" -> 4 [] c = "5" -> 5 [] c = "6" -> 6 [] c = "7" -> 7
    [] c = "8" -> 8 [] c = "9" -> 9

\* unicode.IsSpace on the bytes a tool prints
IsSpace(c) == c \in {" ", "\t", "\r", "\n"}

UpperAlpha == "ABCDEFGHIJKLMNOPQRSTUVWXYZ"
LowerAlpha == "abcdefghijklmnopqrstuvwxyz"
UpperSet == {Char(UpperAlpha, i) : i \in 1..26}

ToLowerChar(c) ==
  IF c \in UpperSet
    THEN Char(LowerAlpha, CHOOSE i \in 1..26 : Char(UpperAlpha, i) = c)
    ELSE c

ToUpperChar(c) ==
  IF \E i \in 1..26 : Char(LowerAlpha, i) = c
    THEN Char(UpperAlpha, CHOOSE i \in 1..26 : Char(LowerAlpha, i) = c)
    ELSE c

RECURSIVE MapChars(_, _, _)
MapChars(s, i, upper) ==
  IF i > Len(s) THEN ""
  ELSE (IF upper THEN ToUpperChar(Char(s, i)) ELSE ToLowerChar(Char(s, i)))
         \o MapChars(s, i + 1, upper)

ToLower(s) == MapChars(s, 1, FALSE)
ToUpper(s) == MapChars(s, 1, TRUE)

HasPrefix(s, p) == Len(s) >= Len(p) /\ SubSeq(s, 1, Len(p)) = p

\* strings.Index: the 1-based position of the first occurrence, 0 for Go's -1
Index(s, sub) ==
  LET hits == {i \in 1..(Len(s) - Len(sub) + 1) : SubSeq(s, i, i + Len(sub) - 1) = sub}
  IN IF hits = {} THEN 0 ELSE CHOOSE i \in hits : \A j \in hits : i <= j

\* strings.LastIndex: the 1-based position of the last occurrence, 0 for Go's -1
LastIndex(s, sub) ==
  LET hits == {i \in 1..(Len(s) - Len(sub) + 1) : SubSeq(s, i, i + Len(sub) - 1) = sub}
  IN IF hits = {} THEN 0 ELSE CHOOSE i \in hits : \A j \in hits : i >= j

Contains(s, sub) == sub = "" \/ Index(s, sub) > 0

\* the k-th smallest element of a set of integers
Kth(S, k) == CHOOSE x \in S : Cardinality({y \in S : y < x}) = k - 1

\* strings.Fields: the maximal runs of non-space bytes, in order
Fields(s) ==
  LET starts == {i \in 1..Len(s) :
                   ~IsSpace(Char(s, i)) /\ (i = 1 \/ IsSpace(Char(s, i - 1)))}
      ends == {i \in 1..Len(s) :
                 ~IsSpace(Char(s, i)) /\ (i = Len(s) \/ IsSpace(Char(s, i + 1)))}
  IN [k \in 1..Cardinality(starts) |-> SubSeq(s, Kth(starts, k), Kth(ends, k))]

\* strings.Split with a separator that cannot overlap itself ("\n", "->", ","):
\* the pieces between the occurrences of sep, one more than there are occurrences
Split(s, sep) ==
  LET at == {i \in 1..(Len(s) - Len(sep) + 1) : SubSeq(s, i, i + Len(sep) - 1) = sep}
      n == Cardinality(at)
  IN [k \in 1..(n + 1) |->
        SubSeq(s, IF k = 1 THEN 1 ELSE Kth(at, k - 1) + Len(sep),
                  IF k = n + 1 THEN Len(s) ELSE Kth(at, k) - 1)]

TrimSpace(s) ==
  LET keep == {i \in 1..Len(s) : ~IsSpace(Char(s, i))}
  IN IF keep = {} THEN ""
     ELSE SubSeq(s, CHOOSE i \in keep : \A j \in keep : i <= j,
                    CHOOSE i \in keep : \A j \in keep : i >= j)

\* strings.Trim(s, cutset) for a one-byte cutset
Trim(s, c) ==
  LET keep == {i \in 1..Len(s) : Char(s, i) # c}
  IN IF keep = {} THEN ""
     ELSE SubSeq(s, CHOOSE i \in keep : \A j \in keep : i <= j,
                    CHOOSE i \in keep : \A j \in keep : i >= j)

AllDigits(s) == \A i \in 1..Len(s) : Char(s, i) \in Digits

RECURSIVE DigitsValue(_, _)
DigitsValue(s, n) ==
  IF n = 0 THEN 0 ELSE DigitsValue(s, n - 1) * 10 + DigitVal(Char(s, n))

RECURSIVE StripZeros(_)
StripZeros(s) ==
  IF Len(s) > 1 /\ Char(s, 1) = "0" THEN StripZeros(SubSeq(s, 2, Len(s))) ELSE s

\* the largest int of the build
MaxInt == 2147483647

\* strconv.Atoi: an optional sign, then one or more decimal digits, the value
\* within the range of int; anything else is an error.
Atoi(s) ==
  LET signed == Len(s) > 0 /\ Char(s, 1) \in {"+", "-"}
      neg    == Len(s) > 0 /\ Char(s, 1) = "-"
      body   == IF signed THEN SubSeq(s, 2, Len(s)) ELSE s
      d      == StripZeros(body)
      n      == Len(d)
      inRange ==
        \/ n <= 9
        \/ /\ n = 10
           /\ LET hi == DigitsValue(d, 9)
                  lo == DigitVal(Char(d, 10))
              IN hi < 214748364 \/ (hi = 214748364 /\ lo <= 7)
  IN IF body = "" \/ ~AllDigits(body) \/ ~inRange
       THEN [ok |-> FALSE, val |-> 0]
       ELSE [ok |-> TRUE, val |-> IF neg THEN 0 - DigitsValue(d, n) ELSE DigitsValue(d, n)]

\* regexp `:(\d+)` FindStringSubmatch: the leftmost ':' that a digit follows,
\* with the longest run of digits after it; "" when nothing matches.
PortRegexMatch(s) ==
  LET hits == {i \in 1..(Len(s) - 1) : Char(s, i) = ":" /\ Char(s, i + 1) \in Digits}
  IN IF hits = {} THEN ""
     ELSE LET i == CHOOSE k \in hits : \A j \in hits : k <= j
              ends == {e \in (i + 1)..Len(s) :
                         /\ \A k \in (i + 1)..e : Char(s, k) \in Digits
                         /\ (e = Len(s) \/ Char(s, e + 1) \notin Digits)}
              e == CHOOSE x \in ends : TRUE
          IN SubSeq(s, i + 1, e)

(***************************************************************************)
(* type Process, and the parsers of the raw tool output.                   *)
(* A *Process result is a sequence of at most one record: <<>> is nil.     *)
(***************************************************************************)
NewProcess(pid, port, command, protocol, state, localAddr, remoteAddr) ==
  [PID |-> pid, Port |-> port, Command |-> command, Protocol |-> protocol,
   State |-> state, User |-> "", StartTime |-> 0, CPUPercent |-> 0,
   MemoryMB |-> 0, ServiceType |-> "", FullCommand |-> "",
   LocalAddr |-> localAddr, RemoteAddr |-> remoteAddr]

parseLsofLine(line, targetPort) ==
  IF HasPrefix(line, "COMMAND") THEN <<>>
  ELSE LET fields == Fields(line) IN
  IF Len(fields) < 9 THEN <<>>
  ELSE LET pid == Atoi(fields[2]) IN
  IF ~pid.ok THEN <<>>
  ELSE LET nameField == fields[9]
           match == PortRegexMatch(nameField) IN
  IF match = "" THEN <<>>
  ELSE LET port == Atoi(match) IN
  IF ~port.ok THEN <<>>
  ELSE IF targetPort # 0 /\ port.val # targetPort THEN <<>>
  ELSE LET protocol == IF Contains(nameField, "UDP") THEN "udp" ELSE "tcp"
           addrParts == Split(nameField, "->")
           localAddr == addrParts[1]
           remoteAddr == IF Len(addrParts) >= 2 THEN addrParts[2] ELSE ""
       IN <<NewProcess(pid.val, port.val, fields[1], protocol, "LISTEN",
                       localAddr, remoteAddr)>>

parseNetstatLine(line, targetPort) ==
  LET fields == Fields(line) IN
  IF Len(fields) < 4 THEN <<>>
  ELSE LET protocol == ToLower(fields[1]) IN
  IF ~HasPrefix(protocol, "tcp") /\ ~HasPrefix(protocol, "udp") THEN <<>>
  ELSE LET localAddr == fields[4]
           portIndex == LastIndex(localAddr, ":") IN
  IF portIndex = 0 THEN <<>>
  ELSE LET port == Atoi(SubSeq(localAddr, portIndex + 1, Len(localAddr))) IN
  IF ~port.ok THEN <<>>
  ELSE IF targetPort # 0 /\ port.val # targetPort THEN <<>>
  ELSE LET pidProgram == fields[Len(fields)]
           pidIndex == Index(pidProgram, "/") IN
  IF pidIndex = 0 THEN <<>>
  ELSE LET pid == Atoi(SubSeq(pidProgram, 1, pidIndex - 1)) IN
  IF ~pid.ok THEN <<>>
  ELSE LET command == SubSeq(pidProgram, pidIndex + 1, Len(pidProgram))
           state == IF Len(fields) > 5 THEN fields[6] ELSE "LISTEN"
           remoteAddr == IF Len(fields) > 4 THEN fields[5] ELSE ""
       IN <<NewProcess(pid.val, port.val, command, protocol, state,
                       localAddr, remoteAddr)>>

RECURSIVE parseUnixLines(_, _, _, _)
parseUnixLines(lines, i, isLsof, targetPort) ==
  IF i > Len(lines) THEN <<>>
  ELSE (IF TrimSpace(lines[i]) = "" THEN <<>>
        ELSE IF isLsof THEN parseLsofLine(lines[i], targetPort)
        ELSE parseNetstatLine(lines[i], targetPort))
       \o parseUnixLines(lines, i + 1, isLsof, targetPort)

parseUnixOutput(output, targetPort) ==
  parseUnixLines(Split(output, "\n"), 1, Contains(output, "COMMAND"), targetPort)

\* What `tasklist /FI "PID eq <pid>" /FO CSV /NH` answers on a host of kind
\* tlKind: the command fails, prints the CSV row of the process, or prints
\* nothing.
TasklistRun(tlKind, pid) ==
  IF tlKind = "fail" THEN [ok |-> FALSE, out |-> ""]
  ELSE IF tlKind = "csv" THEN [ok |-> TRUE, out |-> "\"node.exe\",\"77\",\"Console\"\r\n"]
  ELSE [ok |-> TRUE, out |-> ""]

\* tl is the outcome of the tasklist run: tl.ok is FALSE when the command
\* failed, tl.out is what it printed.
getWindowsProcessName(tl) ==
  IF ~tl.ok THEN "unknown"
  ELSE LET lines == Split(tl.out, "\n") IN
       IF lines[1] # "" THEN Trim(Split(lines[1], ",")[1], "\"") ELSE "unknown"

\* bufio.Scanner with ScanLines: the lines without their "\n" and without a
\* trailing "\r"; no empty last line after a final "\n".
ScanLines(output) ==
  LET raw == Split(output, "\n")
      all == IF raw[Len(raw)] = "" THEN SubSeq(raw, 1, Len(raw) - 1) ELSE raw
  IN [i \in 1..Len(all) |->
        IF Len(all[i]) > 0 /\ Char(all[i], Len(all[i])) = "\r"
          THEN SubSeq(all[i], 1, Len(all[i]) - 1) ELSE all[i]]

parseWindowsLine(line, targetPort, tlKind) ==
  LET fields == Fields(line) IN
  IF Len(fields) < 5 THEN <<>>
  ELSE LET protocol == ToUpper(fields[1]) IN
  IF protocol # "TCP" /\ protocol # "UDP" THEN <<>>
  ELSE LET localAddr == fields[2]
           portIndex == LastIndex(localAddr, ":") IN
  IF portIndex = 0 THEN <<>>
  ELSE LET port == Atoi(SubSeq(localAddr, portIndex + 1, Len(localAddr))) IN
  IF ~port.ok THEN <<>>
  ELSE IF targetPort # 0 /\ port.val # targetPort THEN <<>>
  ELSE LET pid == Atoi(fields[Len(fields)]) IN
  IF ~pid.ok THEN <<>>
  ELSE LET command == getWindowsProcessName(TasklistRun(tlKind, pid.val))
           state == IF protocol = "TCP" THEN fields[4] ELSE "LISTENING"
           remoteAddr == fields[3]
       IN <<NewProcess(pid.val, port.val, command, ToLower(protocol), state,
                       localAddr, remoteAddr)>>

RECURSIVE parseWindowsLines(_, _, _, _)
parseWindowsLines(lines, i, targetPort, tlKind) ==
  IF i > Len(lines) THEN <<>>
  ELSE parseWindowsLine(lines[i], targetPort, tlKind)
       \o parseWindowsLines(lines, i + 1, targetPort, tlKind)

parseWindowsOutput(output, targetPort, tlKind) ==
  parseWindowsLines(ScanLines(output), 1, targetPort, tlKind)

(***************************************************************************)
(* Service classification.                                                 *)
(***************************************************************************)
ServiceMap ==
  (21 :> "FTP") @@ (22 :> "SSH") @@ (23 :> "Telnet") @@ (25 :> "SMTP") @@
  (53 :> "DNS") @@ (80 :> "HTTP") @@ (110 :> "POP3") @@ (135 :> "RPC") @@
  (139 :> "NetBIOS") @@ (143 :> "IMAP") @@ (443 :> "HTTPS") @@
  (993 :> "IMAPS") @@ (995 :> "POP3S") @@ (1433 :> "MSSQL") @@
  (1521 :> "Oracle") @@ (3000 :> "React/Node") @@ (3306 :> "MySQL") @@
  (3389 :> "RDP") @@ (5000 :> "Flask/Python") @@ (5432 :> "PostgreSQL") @@
  (5900 :> "VNC") @@ (6379 :> "Redis") @@ (8000 :> "Django/Alt") @@
  (8080 :> "HTTP-Alt") @@ (8443 :> "HTTPS-Alt") @@
  (9000 :> "PHP-FPM/Sonar") @@ (27017 :> "MongoDB")

\* the classifier asking the command keywords before the port table
detectServiceTypeCommandFirst(port, cmd) ==
  LET command == ToLower(cmd) IN
    IF Contains(command, "node") THEN "Node.js"
    ELSE IF Contains(command, "python") THEN "Python"
    ELSE IF Contains(command, "java") THEN "Java"
    ELSE IF Contains(command, "go") THEN "Go"
    ELSE IF Contains(command, "ruby") THEN "Ruby"
    ELSE IF Contains(command, "php") THEN "PHP"
    ELSE IF Contains(command, "postgres") THEN "PostgreSQL"
    ELSE IF Contains(command, "mysql") THEN "MySQL"
    ELSE IF Contains(command, "redis") THEN "Redis"
    ELSE IF Contains(command, "nginx") THEN "Nginx"
    ELSE IF Contains(command, "apache") THEN "Apache"
    ELSE IF Contains(command, "docker") THEN "Docker"
    ELSE IF Contains(command, "code") THEN "VS Code"
    ELSE IF Contains(command, "chrome") \/ Contains(command, "firefox") THEN "Browser"
    ELSE IF port \in DOMAIN ServiceMap THEN ServiceMap[port]
    ELSE IF port >= 3000 /\ port <= 3999 THEN "Development"
    ELSE IF port >= 8000 /\ port <= 8999 THEN "Development"
    ELSE IF port >= 9000 /\ port <= 9999 THEN "Development"
    ELSE IF port < 1024 THEN "System"
    ELSE "Unknown"

\* The switch takes the first case that holds, so it is a chain of IF/ELSE.
detectServiceType(port, cmd) ==
  IF port \in DOMAIN ServiceMap THEN ServiceMap[port]
  ELSE LET command == ToLower(cmd) IN
    IF Contains(command, "node") THEN "Node.js"
    ELSE IF Contains(command, "python") THEN "Python"
    ELSE IF Contains(command, "java") THEN "Java"
    ELSE IF Contains(command, "go") THEN "Go"
    ELSE IF Contains(command, "ruby") THEN "Ruby"
    ELSE IF Contains(command, "php") THEN "PHP"
    ELSE IF Contains(command, "postgres") THEN "PostgreSQL"
    ELSE IF Contains(command, "mysql") THEN "MySQL"
    ELSE IF Contains(command, "redis") THEN "Redis"
    ELSE IF Contains(command, "nginx") THEN "Nginx"
    ELSE IF Contains(command, "apache") THEN "Apache"
    ELSE IF Contains(command, "docker") THEN "Docker"
    ELSE IF Contains(command, "code") THEN "VS Code"
    ELSE IF Contains(command, "chrome") \/ Contains(command, "firefox") THEN "Browser"
    ELSE IF port >= 3000 /\ port <= 3999 THEN "Development"
    ELSE IF port >= 8000 /\ port <= 8999 THEN "Development"
    ELSE IF port >= 9000 /\ port <= 9999 THEN "Development"
    ELSE IF port < 1024 THEN "System"
    ELSE "Unknown"

(***************************************************************************)
(* Floating point.  A float64 is an integer count of fine units; a float32 *)
(* is coarser: only the multiples of F32Step are float32 values, and the   *)
(* conversion float32(x) rounds to the nearest of them, ties to even.      *)
(***************************************************************************)
F32Step == 4

ToFloat32(x) ==
  LET lo == (x \div F32Step) * F32Step
      hi == lo + F32Step
  IN IF x = lo THEN x
     ELSE IF 2 * (x - lo) < F32Step THEN lo
     ELSE IF 2 * (x - lo) > F32Step THEN hi
     ELSE IF (lo \div F32Step) % 2 = 0 THEN lo ELSE hi

(***************************************************************************)
(* Metrics enrichment.  ProcLookup is what gopsutil answers for a PID on a *)
(* host of kind ptKind: the process is gone, every sub-lookup succeeds, or *)
(* only some do: all but memory fail (partial), exactly one fails (nocpu,  *)
(* nomem, nouser, notime, nocmd), or the processes with an even PID have   *)
(* exited since discovery (oddonly).                                       *)
(***************************************************************************)
ProcLookup(ptKind, pid) ==
  [found |-> ptKind # "gone" /\ (ptKind = "oddonly" => pid % 2 = 1),
   cpuOk |-> ptKind \notin {"partial", "nocpu"}, cpu |-> 1 + (pid % 7),
   memOk |-> ptKind # "nomem", rss |-> F32Step * (1 + (pid % 3)),
   userOk |-> ptKind \notin {"partial", "nouser"},
   user |-> IF pid % 2 = 0 THEN "root" ELSE "dev",
   timeOk |-> ptKind \notin {"partial", "notime"}, createTime |-> 1000 + (pid % 5),
   cmdOk |-> ptKind \notin {"partial", "nocmd"}, cmdline |-> "/usr/bin/app --serve"]

\* pm.enableMetrics, set by NewProcessManager and never changed
enableMetrics == TRUE

\* the enrichment that gives up at the first sub-lookup that fails
enhanceProcessAbortOnError(proc, ptKind) ==
  IF proc.PID < 0 \/ proc.PID > MaxInt THEN proc
  ELSE LET p == ProcLookup(ptKind, proc.PID)
           cpu == p.found /\ p.cpuOk
           mem == cpu /\ p.memOk
           user == mem /\ p.userOk
           start == user /\ p.timeOk
           cmd == start /\ p.cmdOk
       IN [proc EXCEPT
             !.CPUPercent = IF cpu THEN p.cpu ELSE @,
             !.MemoryMB = IF mem THEN p.rss ELSE @,
             !.User = IF user THEN p.user ELSE @,
             !.StartTime = IF start THEN p.createTime ELSE @,
             !.FullCommand = IF cmd THEN p.cmdline ELSE @,
             !.ServiceType = detectServiceType(proc.Port, proc.Command)]

enhanceProcess(proc, ptKind) ==
  IF proc.PID < 0 \/ proc.PID > MaxInt THEN proc
  ELSE LET p == ProcLookup(ptKind, proc.PID)
           looked ==
             IF ~p.found THEN proc
             ELSE [proc EXCEPT
                     !.CPUPercent = IF p.cpuOk THEN p.cpu ELSE @,
                     !.MemoryMB = IF p.memOk THEN p.rss ELSE @,
                     !.User = IF p.userOk THEN p.user ELSE @,
                     !.StartTime = IF p.timeOk THEN p.createTime ELSE @,
                     !.FullCommand = IF p.cmdOk THEN p.cmdline ELSE @]
       IN [looked EXCEPT !.ServiceType = detectServiceType(proc.Port, proc.Command)]

enhanceProcesses(processes, ptKind) ==
  IF ~enableMetrics THEN processes
  ELSE [i \in 1..Len(processes) |-> enhanceProcess(processes[i], ptKind)]

(***************************************************************************)
(* sort.Slice.  The library promises a permutation that is ordered by      *)
(* less and nothing about the order of elements that less does not tell    *)
(* apart ("The sort is not guaranteed to be stable"), so its outcomes are  *)
(* all such permutations.                                                  *)
(***************************************************************************)
Perms(n) == {f \in [1..n -> 1..n] : \A i, j \in 1..n : i # j => f[i] # f[j]}

\* less[i][j] is the less function's answer for the elements i and j of s
SortSlice(s, less) ==
  {[i \in 1..Len(s) |-> s[f[i]]] :
     f \in {g \in Perms(Len(s)) :
              \A i, j \in 1..Len(s) : i < j => ~less[g[j]][g[i]]}}

\* the bytes of a string compare by their ASCII code (the printable ones a
\* command, service or user name is made of, in that order)
AsciiOrder ==
  " !#$%&'()*+,-./0123456789:;<=>?@ABCDEFGHIJKLMNOPQRSTUVWXYZ[]^_abcdefghijklmnopqrstuvwxyz{|}~"

Ord(c) == CHOOSE i \in 1..Len(AsciiOrder) : Char(AsciiOrder, i) = c

\* the < of Go strings
StrLess(a, b) ==
  \E k \in 1..(Len(a) + 1) :
    /\ k <= Len(b) + 1
    /\ SubSeq(a, 1, k - 1) = SubSeq(b, 1, k - 1)
    /\ \/ k = Len(a) + 1 /\ k <= Len(b)
       \/ k <= Len(a) /\ k <= Len(b) /\ Ord(Char(a, k)) < Ord(Char(b, k))

(***************************************************************************)
(* The host a call runs on: the OS family, whether lsof is on the PATH,    *)
(* whether the discovery command fails, what it prints, and how the        *)
(* process table and tasklist answer.                                      *)
(***************************************************************************)
getProcessesUnix(env, port) ==
  IF env.cmdFails THEN [err |-> TRUE, procs |-> <<>>]
  ELSE [err |-> FALSE, procs |-> parseUnixOutput(env.output, port)]

\* the Windows path without the client-side port filter
getProcessesWindowsUnfiltered(env, port) ==
  IF env.cmdFails THEN [err |-> TRUE, procs |-> <<>>]
  ELSE [err |-> FALSE, procs |-> parseWindowsOutput(env.output, 0, env.tlKind)]

getProcessesWindows(env, port) ==
  IF env.cmdFails THEN [err |-> TRUE, procs |-> <<>>]
  ELSE [err |-> FALSE, procs |-> parseWindowsOutput(env.output, port, env.tlKind)]

getBasicProcesses(env, targetPort) ==
  IF env.goos \in {"darwin", "linux"} THEN getProcessesUnix(env, targetPort)
  ELSE IF env.goos = "windows" THEN getProcessesWindows(env, targetPort)
  ELSE [err |-> TRUE, procs |-> <<>>]

GetProcessesOnPort(env, port) ==
  LET basic == getBasicProcesses(env, port)
  IN IF basic.err THEN [err |-> TRUE, procs |-> <<>>]
     ELSE [err |-> FALSE, procs |-> enhanceProcesses(basic.procs, env.ptKind)]

PortLess(s) == [i \in 1..Len(s) |-> [j \in 1..Len(s) |-> s[i].Port < s[j].Port]]

\* the set of results the call can give: sort.Slice leaves ties open
GetAllProcesses(env) ==
  LET basic == getBasicProcesses(env, 0)
  IN IF basic.err THEN {[err |-> TRUE, procs |-> <<>>]}
     ELSE LET processes == enhanceProcesses(basic.procs, env.ptKind)
          IN {[err |-> FALSE, procs |-> sorted] :
                sorted \in SortSlice(processes, PortLess(processes))}

\* the scan stopping one port short of endPort
RECURSIVE scanAvailableExclusive(_, _, _, _, _)
scanAvailableExclusive(port, endPort, count, usedPorts, available) ==
  IF port < endPort /\ Len(available) < count
    THEN scanAvailableExclusive(port + 1, endPort, count, usedPorts,
                                IF port \notin usedPorts THEN Append(available, port)
                                ELSE available)
    ELSE available

RECURSIVE scanAvailable(_, _, _, _, _)
scanAvailable(port, endPort, count, usedPorts, available) ==
  IF port <= endPort /\ Len(available) < count
    THEN scanAvailable(port + 1, endPort, count, usedPorts,
                       IF port \notin usedPorts THEN Append(available, port)
                       ELSE available)
    ELSE available

\* with the processes GetAllProcesses returned
FindAvailablePorts(all, startPort, endPort, count) ==
  IF all.err THEN [err |-> TRUE, available |-> <<>>, usedPorts |-> {}]
  ELSE LET usedPorts == {all.procs[i].Port : i \in 1..Len(all.procs)}
       IN [err |-> FALSE,
           available |-> scanAvailable(startPort, endPort, count, usedPorts, <<>>),
           usedPorts |-> usedPorts]

\* the filter keeping a record whose memory is exactly at the limit
filterMatchInclusive(proc, opts) ==
  /\ opts.Service # "" =>
       \/ Contains(ToLower(proc.ServiceType), ToLower(opts.Service))
       \/ Contains(ToLower(proc.Command), ToLower(opts.Service))
  /\ opts.User # "" => Contains(ToLower(proc.User), ToLower(opts.User))
  /\ ~(opts.MemoryLimit > 0 /\ proc.MemoryMB < ToFloat32(opts.MemoryLimit))
  /\ ~(opts.CPULimit > 0 /\ proc.CPUPercent <= opts.CPULimit)

filterMatch(proc, opts) ==
  /\ opts.Service # "" =>
       \/ Contains(ToLower(proc.ServiceType), ToLower(opts.Service))
       \/ Contains(ToLower(proc.Command), ToLower(opts.Service))
  /\ opts.User # "" => Contains(ToLower(proc.User), ToLower(opts.User))
  /\ ~(opts.MemoryLimit > 0 /\ proc.MemoryMB <= ToFloat32(opts.MemoryLimit))
  /\ ~(opts.CPULimit > 0 /\ proc.CPUPercent <= opts.CPULimit)

RECURSIVE filterFrom(_, _, _)
filterFrom(processes, i, opts) ==
  IF i > Len(processes) THEN <<>>
  ELSE (IF filterMatch(processes[i], opts) THEN <<processes[i]>> ELSE <<>>)
       \o filterFrom(processes, i + 1, opts)

FilterProcesses(processes, opts) == filterFrom(processes, 1, opts)

\* the less function with memory ascending
sortLessMemoryAscending(sortBy, a, b) ==
  LET key == ToLower(IF sortBy = "" THEN "port" ELSE sortBy) IN
  IF key = "pid" THEN a.PID < b.PID
  ELSE IF key = "port" THEN a.Port < b.Port
  ELSE IF key = "cpu" THEN a.CPUPercent > b.CPUPercent
  ELSE IF key \in {"memory", "mem"} THEN a.MemoryMB < b.MemoryMB
  ELSE IF key \in {"command", "cmd"} THEN StrLess(a.Command, b.Command)
  ELSE IF key = "service" THEN StrLess(a.ServiceType, b.ServiceType)
  ELSE IF key = "user" THEN StrLess(a.User, b.User)
  ELSE a.Port < b.Port

\* the less function SortProcesses hands to sort.Slice
sortLess(sortBy, a, b) ==
  LET key == ToLower(IF sortBy = "" THEN "port" ELSE sortBy) IN
  IF key = "pid" THEN a.PID < b.PID
  ELSE IF key = "port" THEN a.Port < b.Port
  ELSE IF key = "cpu" THEN a.CPUPercent > b.CPUPercent
  ELSE IF key \in {"memory", "mem"} THEN a.MemoryMB > b.MemoryMB
  ELSE IF key \in {"command", "cmd"} THEN StrLess(a.Command, b.Command)
  ELSE IF key = "service" THEN StrLess(a.ServiceType, b.ServiceType)
  ELSE IF key = "user" THEN StrLess(a.User, b.User)
  ELSE a.Port < b.Port

\* the set of results the call can give
SortProcesses(processes, sortBy) ==
  SortSlice(processes,
            [i \in 1..Len(processes) |->
               [j \in 1..Len(processes) |-> sortLess(sortBy, processes[i], processes[j])]])

(***************************************************************************)
(* The inputs of the model: what the discovery tools print, the hosts, and *)
(* the arguments of the calls.                                             *)
(***************************************************************************)
LsofHeader == "COMMAND PID USER FD TYPE DEVICE SIZE/OFF NODE NAME"

\* lsof -i -P -n prints one such line per socket
LsofEnvLines ==
  {"node      12345 user   23u  IPv4 0x1      0t0  TCP *:8080 (LISTEN)",
   "python3 4242 dev 3u IPv4 0xb 0t0 TCP 127.0.0.1:8080 (LISTEN)",
   "dnsmasq 53 root 4u IPv4 0x2 0t0 UDP *:53",
   "sshd 0 root 3u IPv4 0x3 0t0 TCP *:22 (LISTEN)",
   "launchd -5 root 7u IPv4 0x4 0t0 TCP *:443 (LISTEN)",
   "node 777 user 9u IPv6 0x7 0t0 TCP [::1]:8080 (LISTEN)"}

LsofLines ==
  LsofEnvLines \cup
  {LsofHeader,
   "curl 900 user 5u IPv4 0x8 0t0 TCP host:5000->peer:443 (ESTABLISHED)",
   "node 12345 user 23u IPv4 0x1 0t0 TCP",
   "avahi 66 root 3u IPv4 0x9 0t0 UDP *:*",
   "ntpd 67 root 3u IPv4 0xa 0t0 UDP *:0",
   "rogue 88 user 6u IPv4 0x5 0t0 TCP *:99999 (LISTEN)",
   "node abc user 23u IPv4 0x1 0t0 TCP *:8080 (LISTEN)"}

\* netstat -tulpn
NetstatEnvLines ==
  {"Proto Recv-Q Send-Q Local Address Foreign Address State PID/Program name",
   "tcp        0      0 0.0.0.0:8080            0.0.0.0:*               LISTEN      12345/node",
   "udp 0 0 0.0.0.0:53 0.0.0.0:* 53/dnsmasq",
   "tcp6 0 0 :::22 :::* LISTEN 0/sshd",
   "tcp 0 0 127.0.0.1:5432 0.0.0.0:* LISTEN -",
   "tcp 0 0 0.0.0.0:0 0.0.0.0:* LISTEN 70/rogue"}

\* netstat -ano
WindowsEnvLines ==
  {"Active Connections",
   "  TCP    0.0.0.0:8080    0.0.0.0:0    LISTENING    77\r",
   "  TCP    [::]:22    [::]:0    LISTENING    4\r",
   "  TCP    127.0.0.1:50000    127.0.0.1:8080    TIME_WAIT    0\r",
   "  UDP    0.0.0.0:53    *:*    88\r"}

\* the sequences of at most n elements of pool
SeqsUpTo(pool, n) == UNION {[1..k -> pool] : k \in 0..n}

RECURSIVE JoinLines(_, _)
JoinLines(lines, i) ==
  IF i > Len(lines) THEN "" ELSE lines[i] \o "\n" \o JoinLines(lines, i + 1)

\* three development servers, the host of the documented example
DevHostOutput ==
  JoinLines(<<LsofHeader,
              "node 301 dev 3u IPv4 0x1 0t0 TCP *:3000 (LISTEN)",
              "node 302 dev 3u IPv4 0x2 0t0 TCP *:3002 (LISTEN)",
              "ruby 305 dev 3u IPv4 0x3 0t0 TCP *:3005 (LISTEN)">>, 1)

LsofOutputs ==
  {LsofHeader \o "\n" \o JoinLines(ls, 1) : ls \in SeqsUpTo(LsofEnvLines, MaxLines)}
    \cup {DevHostOutput}

NetstatOutputs == {JoinLines(ls, 1) : ls \in SeqsUpTo(NetstatEnvLines, MaxLines)}

WindowsOutputs == {JoinLines(ls, 1) : ls \in SeqsUpTo(WindowsEnvLines, MaxLines)}

PtKinds == {"gone", "full", "partial"}

Host(goos, lsof, cmdFails, output, ptKind, tlKind) ==
  [goos |-> goos, lsof |-> lsof, cmdFails |-> cmdFails, output |-> output,
   ptKind |-> ptKind, tlKind |-> tlKind]

Envs ==
  {Host(g, TRUE, FALSE, o, k, "none") :
     g \in {"linux", "darwin"}, o \in LsofOutputs, k \in PtKinds}
  \cup {Host("linux", FALSE, FALSE, o, k, "none") : o \in NetstatOutputs, k \in PtKinds}
  \cup {Host("windows", FALSE, FALSE, o, k, t) :
          o \in WindowsOutputs, k \in PtKinds, t \in {"fail", "csv", "none"}}
  \cup {Host(g, l, TRUE, "", "gone", "none") :
          g \in {"linux", "windows"}, l \in BOOLEAN}
  \cup {Host("plan9", FALSE, FALSE, "", "gone", "none")}

TargetPorts == {8080, 22}

ClassifyPorts == {5432, 59999, 3000, 3999, 4000, 8500, 9999, 10000, 1023, 1024, 80, 0}

ClassifyCommands ==
  {"node-server", "unknownbin", "Python3", "java", "mongod", "gopher-node",
   "ruby", "php-fpm", "postgres", "mysqld", "redis-server", "nginx", "apache2",
   "dockerd", "Code", "chrome", "firefox", "vscode-java", ""}

\* (startPort, endPort, count)
ScanRanges ==
  {<<3000, 3010, 5>>, <<3000, 3010, 20>>, <<8079, 8081, 1>>, <<20, 23, 2>>,
   <<3005, 3000, 5>>, <<3000, 3010, 0>>, <<52, 53, 0 - 1>>}

\* enriched records as a caller holds them
Sample(pid, port, command, user, cpu, mem) ==
  [NewProcess(pid, port, command, "tcp", "LISTEN", "*", "") EXCEPT
     !.User = user, !.CPUPercent = cpu, !.MemoryMB = mem,
     !.ServiceType = detectServiceType(port, command)]

SampleProcesses ==
  {Sample(10, 8080, "node", "root", 5, 2 * F32Step),
   Sample(11, 8080, "Python3", "dev", 5, 2 * F32Step),
   Sample(12, 22, "sshd", "Root", 0, 1 * F32Step),
   Sample(10, 3000, "node", "", 9, 0)}

FilterOpts ==
  {[Service |-> sv, User |-> u, MemoryLimit |-> m, CPULimit |-> c] :
     sv \in {"", "NODE"}, u \in {"", "ROOT"},
     m \in {0, 2 * F32Step, 2 * F32Step - 1, F32Step}, c \in {0, 5}}

SortKeys ==
  {"", "pid", "port", "cpu", "memory", "mem", "command", "cmd", "service",
   "user", "PID", "bogus"}

\* state := &watchState{processes: make(map[string]process.Process)}
NewWatchState == [processes |-> <<>>, changes |-> <<>>, totalUpdates |-> 0]

\* no watch is running
WatchOff ==
  /\ watchState = NewWatchState
  /\ watchFlags = [watchContinuous |-> FALSE, watchCount |-> 0, targetPort |-> 0]
  /\ ticker = [pc |-> "off", processes |-> <<>>, updateCycles |-> 0]
  /\ mainG = "off"
  /\ sigc = 0
  /\ watchExit = 0 - 1
  /\ seen = [reader |-> "none", fields |-> {}, view |-> NewWatchState,
             completed |-> NewWatchState]
  /\ watchLog = [completed |-> NewWatchState, ticks |-> 0, outcomes |-> <<>>]

\* no scan is running
ScanOff ==
  /\ scanCall = [host |-> "", ports |-> <<>>, scanConcurrent |-> 0]
  /\ scanMain = [pc |-> "off", i |-> 0, results |-> <<>>]
  /\ workers = <<>>
  /\ scanResults = <<>>
  /\ sem = 0
  /\ wg = 0
  /\ writes = <<>>

\* the model runInteractive builds: the zero tuiModel in stateLoading; the
\* cursor of the list stands for m.list, the value of the input for
\* m.textInput; the frame of m.spinner is left out
NewTuiModel ==
  [state |-> "stateLoading", processes |-> <<>>, filteredProcs |-> <<>>,
   selectedProc |-> NewProcess(0, 0, "", "", "", "", ""), stats |-> "nil",
   err |-> "", width |-> 0, filterQuery |-> "", textInput |-> "",
   showHelp |-> FALSE, lastUpdate |-> "start", cursor |-> 0]

NoCommands == [loads |-> 0, stats |-> 0, kills |-> <<>>]

TuiOff ==
  /\ program = "off"
  /\ tui = NewTuiModel
  /\ inflight = NoCommands

Init ==
  /\ pc = "idle"
  /\ op = "none"
  /\ args = <<>>
  /\ result = <<>>
  /\ WatchOff
  /\ ScanOff
  /\ TuiOff

Return ==
  /\ pc = "done"
  /\ pc' = "idle"
  /\ op' = "none"
  /\ args' = <<>>
  /\ result' = <<>>
  /\ UNCHANGED <<watchVars, scanVars, tuiVars>>

\* a call runs to completion: the state after it holds its arguments and result
Call(name, a, r) ==
  /\ pc' = "done"
  /\ op' = name
  /\ args' = a
  /\ result' = r
  /\ UNCHANGED <<watchVars, scanVars, tuiVars>>

CallParseLsofLine ==
  /\ pc = "idle"
  /\ \E line \in LsofLines, targetPort \in {0} \cup TargetPorts :
       Call("parseLsofLine", [line |-> line, targetPort |-> targetPort],
            parseLsofLine(line, targetPort))

CallDetectServiceType ==
  /\ pc = "idle"
  /\ \E port \in ClassifyPorts, command \in ClassifyCommands :
       Call("detectServiceType", [port |-> port, command |-> command],
            detectServiceType(port, command))

CallGetProcessesOnPort ==
  /\ pc = "idle"
  /\ \E env \in Envs, port \in TargetPorts :
       Call("GetProcessesOnPort", [env |-> env, port |-> port],
            GetProcessesOnPort(env, port))

CallGetAllProcesses ==
  /\ pc = "idle"
  /\ \E env \in Envs :
       \E r \in GetAllProcesses(env) :
         Call("GetAllProcesses", [env |-> env], r)

CallFindAvailablePorts ==
  /\ pc = "idle"
  /\ \E env \in Envs :
       \E all \in GetAllProcesses(env) :
         \E r \in ScanRanges :
           Call("FindAvailablePorts",
                [env |-> env, startPort |-> r[1], endPort |-> r[2], count |-> r[3]],
                FindAvailablePorts(all, r[1], r[2], r[3]))

CallFilterProcesses ==
  /\ pc = "idle"
  /\ \E processes \in SeqsUpTo(SampleProcesses, MaxRecs), opts \in FilterOpts :
       Call("FilterProcesses", [processes |-> processes, opts |-> opts],
            FilterProcesses(processes, opts))

CallSortProcesses ==
  /\ pc = "idle"
  /\ \E processes \in SeqsUpTo(SampleProcesses, MaxRecs), sortBy \in SortKeys :
       \E r \in SortProcesses(processes, sortBy) :
         Call("SortProcesses", [processes |-> processes, sortBy |-> sortBy], r)

Next ==
  \/ CallParseLsofLine
  \/ CallDetectServiceType
  \/ CallGetProcessesOnPort
  \/ CallGetAllProcesses
  \/ CallFindAvailablePorts
  \/ CallFilterProcesses
  \/ CallSortProcesses
  \/ Return

Spec == Init /\ [][Next]_vars

(***************************************************************************)
(* Process termination.  The kernel's process table as a kill sees it:     *)
(* table.alive are the PIDs that exist, table.owned the ones the caller    *)
(* may signal, table.termExits whether a process asked to terminate        *)
(* (SIGTERM, taskkill without /F) is gone before the next attempt.  A      *)
(* forced kill always removes the process.  PIDs are positive here.        *)
(***************************************************************************)
\* the error of process.Signal / of taskkill's exit status; "" is nil
SignalError(table, pid) ==
  IF table.goos = "windows"
  THEN IF pid \notin table.alive THEN "exit status 128"
       ELSE IF pid \notin table.owned THEN "exit status 1"
       ELSE ""
  ELSE IF pid \notin table.alive THEN "os: process already finished"
       ELSE IF pid \notin table.owned THEN "operation not permitted"
       ELSE ""

KillProcess(table, pid, force) ==
  LET err == SignalError(table, pid)
  IN [err |-> err,
      table |-> IF err = "" /\ (force \/ table.termExits)
                THEN [table EXCEPT !.alive = @ \ {pid}]
                ELSE table]

\* results[pid] = err on a Go map
MapSet(m, k, v) == [x \in DOMAIN m \cup {k} |-> IF x = k THEN v ELSE m[x]]

\* the batch that stops at the first failed kill
RECURSIVE killFromAbortOnError(_, _, _, _, _, _)
killFromAbortOnError(table, pids, i, force, results, attempts) ==
  IF i > Len(pids) THEN [results |-> results, attempts |-> attempts, table |-> table]
  ELSE LET k == KillProcess(table, pids[i], force)
           r == MapSet(results, pids[i], k.err)
           a == Append(attempts, [pid |-> pids[i], err |-> k.err])
       IN IF k.err # "" THEN [results |-> r, attempts |-> a, table |-> k.table]
          ELSE killFromAbortOnError(k.table, pids, i + 1, force, r, a)

\* the loop of KillProcesses from element i on; attempts is the trace of the
\* KillProcess calls made
RECURSIVE killFrom(_, _, _, _, _, _)
killFrom(table, pids, i, force, results, attempts) ==
  IF i > Len(pids) THEN [results |-> results, attempts |-> attempts, table |-> table]
  ELSE LET k == KillProcess(table, pids[i], force)
       IN killFrom(k.table, pids, i + 1, force,
                   MapSet(results, pids[i], k.err),
                   Append(attempts, [pid |-> pids[i], err |-> k.err]))

KillProcesses(table, pids, force) == killFrom(table, pids, 1, force, <<>>, <<>>)

\* PIDs in one batch
MaxPids == 3

ProcTable(goos, alive, owned, termExits) ==
  [goos |-> goos, alive |-> alive, owned |-> owned, termExits |-> termExits]

\* 301, 302, 305: the development servers of DevHostOutput; 305 belongs to
\* another user, 999 does not exist
ProcTables ==
  {ProcTable(g, {301, 302, 305}, o, e) :
     g \in {"linux", "windows"}, o \in {{301, 302}, {301, 302, 305}}, e \in BOOLEAN}

KillPids == {301, 302, 305, 999}

CallKillProcesses ==
  /\ pc = "idle"
  /\ \E table \in ProcTables, pids \in SeqsUpTo(KillPids, MaxPids), force \in BOOLEAN :
       Call("KillProcesses", [table |-> table, pids |-> pids, force |-> force],
            KillProcesses(table, pids, force))

(***************************************************************************)
(* The kill command (cmd/kill.go).  A run of a command is a sequential     *)
(* program; its outcome is the exit status of the process, whether the     *)
(* confirmation prompt was shown, the KillProcess calls it made, whether a   *)
(* discovery call of the run returned an error, and the list it printed.   *)
(* Standard input is what ReadString('\n') returns: a line, or an error.    *)
(* found is what discovery answers during the run: found.all the possible  *)
(* results of GetAllProcesses, found.onPort[p] the result of               *)
(* GetProcessesOnPort(p).                                                  *)
(***************************************************************************)
Outcome(exit, prompted, attempts, discoveryFailed) ==
  [exit |-> exit, prompted |-> prompted, attempts |-> attempts,
   discoveryFailed |-> discoveryFailed, output |-> <<>>]

\* the outcome of a run that printed a list (of records, of ports)
Printed(exit, discoveryFailed, output) ==
  [Outcome(exit, FALSE, <<>>, discoveryFailed) EXCEPT !.output = output]

confirmKill(answer) ==
  IF answer.err THEN FALSE
  ELSE ToLower(TrimSpace(answer.line)) \in {"y", "yes"}

killProcessByPID(flags, answer, table) ==
  IF ~flags.killYes /\ ~confirmKill(answer) THEN Outcome(0, TRUE, <<>>, FALSE)
  ELSE LET k == KillProcess(table, flags.killPID, flags.killForce)
       IN Outcome(IF k.err # "" THEN 1 ELSE 0, ~flags.killYes,
                  <<[pid |-> flags.killPID, err |-> k.err]>>, FALSE)

\* the wall clock of the run and time.ParseDuration, in seconds
Now == 10000

ParseDuration(s) ==
  IF s = "1h" THEN [ok |-> TRUE, val |-> 3600]
  ELSE IF s = "3h" THEN [ok |-> TRUE, val |-> 10800]
  ELSE [ok |-> FALSE, val |-> 0]

\* all is what GetAllProcesses returned
getFilteredProcesses(all, flags) ==
  IF all.err THEN [err |-> TRUE, procs |-> <<>>]
  ELSE IF flags.killOlder # "" /\ Len(all.procs) > 0 /\ ~ParseDuration(flags.killOlder).ok
  THEN [err |-> TRUE, procs |-> <<>>]
  ELSE LET match(proc) ==
             /\ flags.killService # "" =>
                  \/ Contains(ToLower(proc.ServiceType), ToLower(flags.killService))
                  \/ Contains(ToLower(proc.Command), ToLower(flags.killService))
             /\ flags.killUser # "" =>
                  Contains(ToLower(proc.User), ToLower(flags.killUser))
             /\ flags.killOlder # "" =>
                  ~(proc.StartTime = 0
                      \/ Now - proc.StartTime < ParseDuration(flags.killOlder).val)
       IN [err |-> FALSE, procs |-> SelectSeq(all.procs, match)]

\* a range loop that looks at its first port only
rangeFromFirstPortOnly(found, port, end) ==
  [procs |-> IF port > end \/ found.onPort[port].err THEN <<>> ELSE found.onPort[port].procs,
   failed |-> port <= end /\ found.onPort[port].err]

\* the loop of getProcessesInRange from port on: discovery errors are skipped
RECURSIVE rangeFrom(_, _, _)
rangeFrom(found, port, end) ==
  IF port > end THEN [procs |-> <<>>, failed |-> FALSE]
  ELSE LET here == found.onPort[port]
           rest == rangeFrom(found, port + 1, end)
       IN [procs |-> (IF here.err THEN <<>> ELSE here.procs) \o rest.procs,
           failed |-> here.err \/ rest.failed]

getProcessesInRange(found, rangeStr) ==
  LET parts == Split(rangeStr, "-")
      none == [err |-> TRUE, procs |-> <<>>, failed |-> FALSE]
  IN IF Len(parts) # 2 THEN none
     ELSE LET start == Atoi(TrimSpace(parts[1]))
              end == Atoi(TrimSpace(parts[2]))
          IN IF ~start.ok \/ ~end.ok THEN none
             ELSE IF start.val >= end.val THEN none
             ELSE LET r == rangeFrom(found, start.val, end.val)
                  IN [err |-> FALSE, procs |-> r.procs, failed |-> r.failed]

\* the loop of runKill over its port arguments from argument i on; a
\* discovery error is printed and the loop continues
RECURSIVE portArgsFrom(_, _, _)
portArgsFrom(found, portArgs, i) ==
  IF i > Len(portArgs) THEN [err |-> FALSE, procs |-> <<>>, failed |-> FALSE]
  ELSE LET port == Atoi(portArgs[i])
       IN IF ~port.ok THEN [err |-> TRUE, procs |-> <<>>, failed |-> FALSE]
          ELSE LET here == found.onPort[port.val]
                   rest == portArgsFrom(found, portArgs, i + 1)
               IN [err |-> rest.err,
                   procs |-> (IF here.err THEN <<>> ELSE here.procs) \o rest.procs,
                   failed |-> here.err \/ rest.failed]

\* the list as it is, duplicates kept
keepDuplicateProcesses(processes) == processes

removeDuplicateProcesses(processes) ==
  LET first(i) == \A j \in 1..(i - 1) : processes[j].PID # processes[i].PID
      keep == {i \in 1..Len(processes) : first(i)}
  IN [k \in 1..Cardinality(keep) |-> processes[Kth(keep, k)]]

killMultipleProcesses(flags, answer, table, processes, failed) ==
  IF Len(processes) = 0 THEN Outcome(0, FALSE, <<>>, failed)
  ELSE IF ~flags.killYes /\ ~confirmKill(answer) THEN Outcome(0, TRUE, <<>>, failed)
  ELSE LET pids == [i \in 1..Len(processes) |-> processes[i].PID]
           k == KillProcesses(table, pids, flags.killForce)
           anyFailed == \E pid \in DOMAIN k.results : k.results[pid] # ""
       IN Outcome(IF anyFailed THEN 1 ELSE 0, ~flags.killYes, k.attempts, failed)

\* killCmd.Args, checked by cobra before Run; Execute exits 1 on its error
killArgsValid(flags, portArgs) ==
  \/ flags.killPID # 0 \/ flags.killRange # "" \/ flags.killService # ""
  \/ flags.killUser # "" \/ flags.killOlder # ""
  \/ Len(portArgs) > 0

\* all is what GetAllProcesses returns when the run asks for it
runKillWith(all, flags, portArgs, answer, found, table) ==
  IF ~killArgsValid(flags, portArgs) THEN Outcome(1, FALSE, <<>>, FALSE)
  ELSE IF flags.killPID # 0 THEN killProcessByPID(flags, answer, table)
  ELSE LET filtering == flags.killService # "" \/ flags.killUser # "" \/ flags.killOlder # ""
           filtered == IF filtering THEN getFilteredProcesses(all, flags)
                       ELSE [err |-> FALSE, procs |-> <<>>]
           failed1 == filtering /\ all.err
       IN IF filtered.err THEN Outcome(1, FALSE, <<>>, failed1)
  ELSE LET inRange == IF flags.killRange # "" THEN getProcessesInRange(found, flags.killRange)
                      ELSE [err |-> FALSE, procs |-> <<>>, failed |-> FALSE]
       IN IF inRange.err THEN Outcome(1, FALSE, <<>>, failed1)
  ELSE LET onPorts == portArgsFrom(found, portArgs, 1)
           failed == failed1 \/ inRange.failed \/ onPorts.failed
       IN IF onPorts.err THEN Outcome(1, FALSE, <<>>, failed)
  ELSE LET targetProcesses == filtered.procs \o inRange.procs \o onPorts.procs
       IN IF Len(targetProcesses) = 0 THEN Outcome(0, FALSE, <<>>, failed)
          ELSE killMultipleProcesses(flags, answer, table,
                                     removeDuplicateProcesses(targetProcesses), failed)

\* the outcomes a run of the kill command can have
runKill(flags, portArgs, answer, found, table) ==
  {runKillWith(all, flags, portArgs, answer, found, table) : all \in found.all}

(***************************************************************************)
(* The quick actions (quickCmd).  None of them reads standard input.       *)
(***************************************************************************)
\* the tail shared by kill-dev, kill-node and kill-stale: the PIDs of the
\* chosen records go to KillProcesses without force, the results are
\* counted and printed, and the function returns
killChosen(table, chosen) ==
  IF Len(chosen) = 0 THEN [out |-> Outcome(0, FALSE, <<>>, FALSE), table |-> table]
  ELSE LET pids == [i \in 1..Len(chosen) |-> chosen[i].PID]
           k == KillProcesses(table, pids, FALSE)
       IN [out |-> Outcome(0, FALSE, k.attempts, FALSE), table |-> k.table]

killDevProcesses(all, table) ==
  IF all.err THEN [out |-> Outcome(0, FALSE, <<>>, TRUE), table |-> table]
  ELSE LET dev(proc) == proc.Port >= 3000 /\ proc.Port <= 9999
       IN killChosen(table, SelectSeq(all.procs, dev))

killNodeProcesses(all, table) ==
  IF all.err THEN [out |-> Outcome(0, FALSE, <<>>, TRUE), table |-> table]
  ELSE LET node(proc) == \/ Contains(ToLower(proc.Command), "node")
                         \/ Contains(ToLower(proc.ServiceType), "node")
       IN killChosen(table, SelectSeq(all.procs, node))

\* fmt.Sprintf("%v", t) of a time.Time made by time.Unix(sec, 0)
TimeString(t) ==
  "1970-01-01 00:16:4" \o SubSeq("0123456789", (t % 10) + 1, (t % 10) + 1) \o " +0000 UTC"

killStaleProcesses(all, table) ==
  IF all.err THEN [out |-> Outcome(0, FALSE, <<>>, TRUE), table |-> table]
  ELSE LET stale(proc) ==
             /\ proc.StartTime # 0
             /\ \/ Contains(TimeString(proc.StartTime), "old")
                \/ Len(TimeString(proc.StartTime)) > 50
       IN killChosen(table, SelectSeq(all.procs, stale))

\* all1, all2, all3 are the answers of the three GetAllProcesses calls
cleanupProcesses(all1, all2, all3, table) ==
  LET dev == killDevProcesses(all1, table)
      stale == killStaleProcesses(all2, dev.table)
  IN Outcome(0, FALSE, dev.out.attempts \o stale.out.attempts,
             dev.out.discoveryFailed \/ stale.out.discoveryFailed \/ all3.err)

DevPorts == <<3000, 3001, 3002, 4000, 5000, 8000, 8080, 8081, 9000>>

\* errors of GetProcessesOnPort and FindAvailablePorts are dropped
showDevPorts(all, found) ==
  LET available == FindAvailablePorts(all, 3000, 9999, 3)
  IN Printed(0,
             \/ \E i \in 1..Len(DevPorts) : found.onPort[DevPorts[i]].err
             \/ available.err,
             available.available)

findNextPort(all) ==
  LET ports == FindAvailablePorts(all, 3000, 9999, 1)
  IN IF ports.err THEN Printed(0, TRUE, <<>>)
     ELSE Printed(0, FALSE, ports.available)

QuickActions ==
  {"kill-dev", "kill-node", "kill-stale", "cleanup", "dev-ports", "next-port", "help"}

\* the outcomes a run of `portctl quick <action>` can have
runQuick(action, found, table) ==
  {IF action = "kill-dev" THEN killDevProcesses(all1, table).out
   ELSE IF action = "kill-node" THEN killNodeProcesses(all1, table).out
   ELSE IF action = "kill-stale" THEN killStaleProcesses(all1, table).out
   ELSE IF action = "cleanup" THEN cleanupProcesses(all1, all2, all3, table)
   ELSE IF action = "dev-ports" THEN showDevPorts(all1, found)
   ELSE IF action = "next-port" THEN findNextPort(all1)
   ELSE Outcome(1, FALSE, <<>>, FALSE) :
     all1 \in found.all, all2 \in found.all, all3 \in found.all}

(***************************************************************************)
(* The read-only one-shot commands: list, available, stats.                *)
(***************************************************************************)
runList(flags, portArgs, found) ==
  LET shown(processes) ==
        {Printed(0, FALSE, sorted) :
           sorted \in SortProcesses(FilterProcesses(processes, flags.filter),
                                    flags.listSort)}
  IN IF Len(portArgs) = 0 \/ flags.listAll
     THEN UNION {IF all.err THEN {Printed(1, TRUE, <<>>)} ELSE shown(all.procs) :
                   all \in found.all}
     ELSE LET port == Atoi(portArgs[1])
          IN IF ~port.ok THEN {Printed(1, FALSE, <<>>)}
             ELSE LET onPort == found.onPort[port.val]
                  IN IF onPort.err THEN {Printed(1, TRUE, <<>>)}
                     ELSE shown(onPort.procs)

runAvailable(flags, found) ==
  LET availableStart == IF flags.start = 0 THEN 3000 ELSE flags.start
      availableEnd == IF flags.end = 0 THEN 9999 ELSE flags.end
      availableCount == IF flags.count = 0 THEN 10 ELSE flags.count
  IN IF availableStart >= availableEnd THEN {Printed(1, FALSE, <<>>)}
     ELSE {LET ports == FindAvailablePorts(all, availableStart, availableEnd,
                                           availableCount)
           IN IF ports.err THEN Printed(1, TRUE, <<>>)
              ELSE Printed(0, FALSE, ports.available) :
             all \in found.all}

\* the less function that puts the smaller memory first
MemoryLessAscending(s) ==
  [i \in 1..Len(s) |-> [j \in 1..Len(s) |-> s[i].MemoryMB < s[j].MemoryMB]]

\* the memory order of GetSystemStats: larger first
MemoryLess(s) ==
  [i \in 1..Len(s) |-> [j \in 1..Len(s) |-> s[i].MemoryMB > s[j].MemoryMB]]

countUniquePorts(processes) ==
  Cardinality({processes[i].Port : i \in 1..Len(processes)})

\* what gopsutil's cpu.Percent and mem.VirtualMemory answer: an error or the
\* CPU percentage, an error or the used and available memory (in GB)
HostStats(cpuErr, memErr) ==
  [cpuErr |-> cpuErr, cpu |-> 37, memErr |-> memErr, used |-> 6, available |-> 10]

\* a failing cpu.Percent only zeroes the CPU figure; a failing
\* mem.VirtualMemory is returned as the error of the call
GetSystemStats(found, sys) ==
  UNION {IF all.err \/ sys.memErr THEN {[err |-> TRUE, discoveryFailed |-> all.err]}
         ELSE {[err |-> FALSE, discoveryFailed |-> FALSE,
                TotalProcesses |-> Len(all.procs),
                ListeningPorts |-> countUniquePorts(all.procs),
                CPUUsagePercent |-> IF sys.cpuErr THEN 0 ELSE sys.cpu,
                MemoryUsageGB |-> sys.used,
                AvailableMemoryGB |-> sys.available,
                TopPortUsers |-> SubSeq(top, 1, IF Len(top) > 5 THEN 5 ELSE Len(top))] :
                 top \in SortSlice(all.procs, MemoryLess(all.procs))} :
           all \in found.all}

runStats(found, memFails) ==
  {IF stats.err THEN Printed(1, stats.discoveryFailed, <<>>)
   ELSE Printed(0, FALSE, stats.TopPortUsers) :
     stats \in GetSystemStats(found, HostStats(FALSE, memFails))}

(***************************************************************************)
(* The inputs of the commands and the specification of the command line.   *)
(***************************************************************************)
\* a node server with two listening sockets, and another user's ruby
TwinHostOutput ==
  JoinLines(<<LsofHeader,
              "node 301 dev 3u IPv4 0x1 0t0 TCP *:3000 (LISTEN)",
              "node 301 dev 4u IPv6 0x2 0t0 TCP *:3001 (LISTEN)",
              "ruby 305 root 3u IPv4 0x3 0t0 TCP *:3005 (LISTEN)">>, 1)

\* hosts: three development servers; the twin host; a host with nothing
\* listening; a host whose discovery command fails
CliEnvs ==
  {Host("linux", TRUE, FALSE, DevHostOutput, "full", "none"),
   Host("linux", TRUE, FALSE, TwinHostOutput, "full", "none"),
   Host("linux", TRUE, FALSE, JoinLines(<<LsofHeader>>, 1), "full", "none"),
   Host("linux", TRUE, TRUE, "", "gone", "none")}

\* the ports a run may ask about
AskedPorts == 3000..3005 \cup {DevPorts[i] : i \in 1..Len(DevPorts)}

\* what discovery answers on each host: the results GetAllProcesses can
\* give and, port by port, the result of GetProcessesOnPort
AllAnswers == [env \in CliEnvs |-> GetAllProcesses(env)]

OnPortAnswers ==
  [env \in CliEnvs |-> [port \in AskedPorts |-> GetProcessesOnPort(env, port)]]

Discover(env) == [all |-> AllAnswers[env], onPort |-> OnPortAnswers[env]]

CliTables == {table \in ProcTables : table.goos = "linux"}

Stdin(err, line) == [err |-> err, line |-> line]

Answers ==
  {Stdin(FALSE, "y\n"), Stdin(FALSE, " YES \n"), Stdin(FALSE, "n\n"),
   Stdin(FALSE, "\n"), Stdin(TRUE, "")}

KillFlags(pid, range, service, user, older) ==
  [killPID |-> pid, killForce |-> FALSE, killYes |-> FALSE, killRange |-> range,
   killService |-> service, killUser |-> user, killOlder |-> older]

\* what to kill: <<flags, port arguments>>
KillTargets ==
  {<<KillFlags(pid, "", "", "", ""), <<>>>> : pid \in {0, 301, 305, 999}}
  \cup {<<KillFlags(0, "", "", "", ""), a>> :
          a \in {<<"3000">>, <<"3000", "3001", "3005">>, <<"http">>, <<"3002", "x">>}}
  \cup {<<KillFlags(0, r, "", "", ""), <<>>>> :
          r \in {"3000-3002", "3002-3000", "3000", "a-b"}}
  \cup {<<KillFlags(0, "", f[1], f[2], f[3]), <<>>>> :
          f \in {<<"Node", "", "">>, <<"", "root", "">>, <<"", "", "1h">>,
                 <<"", "", "3h">>, <<"", "", "soon">>, <<"node", "dev", "1h">>}}
  \cup {<<KillFlags(0, "3004-3005", "node", "", ""), <<"3000">>>>}

ListFlags ==
  {[listAll |-> all, listSort |-> sortBy,
    filter |-> [Service |-> sv, User |-> "", MemoryLimit |-> 0, CPULimit |-> 0]] :
     all \in BOOLEAN, sortBy \in {"", "pid"}, sv \in {"", "node"}}

AvailableFlags ==
  {[start |-> r[1], end |-> r[2], count |-> r[3]] :
     r \in {<<0, 0, 0>>, <<3000, 3010, 5>>, <<3005, 3000, 5>>, <<3000, 0, 2>>}}

CallRunKill ==
  /\ pc = "idle"
  /\ \E target \in KillTargets, force \in BOOLEAN, yes \in BOOLEAN,
        answer \in Answers, env \in CliEnvs, table \in CliTables :
       \* with --yes standard input is not read: one answer stands for all
       /\ yes => answer = Stdin(TRUE, "")
       /\ LET flags == [target[1] EXCEPT !.killForce = force, !.killYes = yes]
          IN \E r \in runKill(flags, target[2], answer, Discover(env), table) :
               Call("runKill",
                    [flags |-> flags, portArgs |-> target[2], answer |-> answer,
                     env |-> env, table |-> table], r)

CallRunQuick ==
  /\ pc = "idle"
  /\ \E action \in QuickActions, answer \in {Stdin(FALSE, "n\n"), Stdin(TRUE, "")},
        env \in CliEnvs, table \in CliTables :
       \E r \in runQuick(action, Discover(env), table) :
         Call("runQuick",
              [action |-> action, answer |-> answer, env |-> env, table |-> table], r)

CallRunList ==
  /\ pc = "idle"
  /\ \E flags \in ListFlags, portArgs \in {<<>>, <<"3000">>, <<"web">>}, env \in CliEnvs :
       \E r \in runList(flags, portArgs, Discover(env)) :
         Call("runList", [flags |-> flags, portArgs |-> portArgs, env |-> env], r)

CallRunAvailable ==
  /\ pc = "idle"
  /\ \E flags \in AvailableFlags, env \in CliEnvs :
       \E r \in runAvailable(flags, Discover(env)) :
         Call("runAvailable", [flags |-> flags, env |-> env], r)

CallRunStats ==
  /\ pc = "idle"
  /\ \E env \in CliEnvs, memFails \in BOOLEAN :
       \E r \in runStats(Discover(env), memFails) :
         Call("runStats", [env |-> env, memFails |-> memFails], r)

CliNext ==
  \/ CallKillProcesses
  \/ CallRunKill
  \/ CallRunQuick
  \/ CallRunList
  \/ CallRunAvailable
  \/ CallRunStats
  \/ Return

CliSpec == Init /\ [][CliNext]_vars

(***************************************************************************)
(* Watch mode (cmd/watch.go).  runWatch loads the processes once, starts   *)
(* a goroutine that updates the shared watchState on every tick, and waits *)
(* in the main goroutine for a signal.  Nothing synchronises the two       *)
(* goroutines: an update is a sequence of separate writes to the fields of *)
(* the state, and the steps of the two goroutines interleave freely.       *)
(***************************************************************************)
\* strconv.Itoa, as %d formats an int
RECURSIVE Itoa(_)
Itoa(n) ==
  IF n < 0 THEN "-" \o Itoa(0 - n)
  ELSE IF n < 10 THEN SubSeq("0123456789", n + 1, n + 1)
  ELSE Itoa(n \div 10) \o SubSeq("0123456789", (n % 10) + 1, (n % 10) + 1)

\* key := fmt.Sprintf("%d:%d", proc.PID, proc.Port)
processKey(proc) == Itoa(proc.PID) \o ":" \o Itoa(proc.Port)

\* the map built from a slice of processes, a later record replacing an
\* earlier one with the same key
RECURSIVE processMapFrom(_, _, _)
processMapFrom(processes, i, m) ==
  IF i > Len(processes) THEN m
  ELSE processMapFrom(processes, i + 1, MapSet(m, processKey(processes[i]), processes[i]))

processMap(processes) == processMapFrom(processes, 1, <<>>)

\* the lines of the change list (without their leading emoji)
NewEvent(proc) ==
  "+ NEW: " \o proc.Command \o " (PID " \o Itoa(proc.PID) \o ") on port "
    \o Itoa(proc.Port)

GoneEvent(proc) ==
  "- GONE: " \o proc.Command \o " (PID " \o Itoa(proc.PID) \o ") from port "
    \o Itoa(proc.Port)

\* the orders in which a range over a map can visit the keys
KeyOrders(keys) ==
  {f \in [1..Cardinality(keys) -> keys] :
     \A i, j \in 1..Cardinality(keys) : i # j => f[i] # f[j]}

\* the change list that reports only the new processes
detectProcessChangesNewOnly(oldProcs, newProcs) ==
  LET newProcMap == processMap(newProcs)
      added == {key \in DOMAIN newProcMap : key \notin DOMAIN oldProcs}
  IN {[i \in 1..Cardinality(added) |-> NewEvent(newProcMap[a[i]])] : a \in KeyOrders(added)}

\* the change lists detectProcessChanges can return: the order of the events
\* follows the iteration order of the maps
detectProcessChanges(oldProcs, newProcs) ==
  LET newProcMap == processMap(newProcs)
      added == {key \in DOMAIN newProcMap : key \notin DOMAIN oldProcs}
      removed == {key \in DOMAIN oldProcs : key \notin DOMAIN newProcMap}
  IN {[i \in 1..Cardinality(added) |-> NewEvent(newProcMap[a[i]])]
        \o [i \in 1..Cardinality(removed) |-> GoneEvent(oldProcs[g[i]])] :
        a \in KeyOrders(added), g \in KeyOrders(removed)}

\* what runWatch does when updateProcesses returns an error: os.Exit(1) for
\* the initial load, continue for a periodic update
onUpdateErrorExit(initial) == "exit"

onUpdateError(initial) == IF initial THEN "exit" ELSE "continue"

\* ticks of one run
MaxTicks == 2

\* one node server bound to the same port on IPv4 and IPv6
DualStackOutput ==
  JoinLines(<<LsofHeader,
              "node 301 dev 3u IPv4 0x1 0t0 TCP *:3000 (LISTEN)",
              "node 301 dev 4u IPv6 0x2 0t0 TCP *:3000 (LISTEN)">>, 1)

\* the host at the moment of a discovery call
WatchEnvs == CliEnvs \cup {Host("linux", TRUE, FALSE, DualStackOutput, "full", "none")}

WatchPorts == {0, 3000}

\* the results discovery can give at that moment, for all ports (0) and for
\* the watched port
WatchAnswers ==
  [env \in WatchEnvs |->
     [port \in WatchPorts |->
        IF port > 0
        THEN {[err |-> a.err, procs |-> a.procs] :
                a \in {GetProcessesOnPort(env, port)}}
        ELSE GetAllProcesses(env)]]

WatchRunning == mainG # "off" /\ watchExit < 0

Sees(reader, fields) ==
  [reader |-> reader, fields |-> fields, view |-> watchState,
   completed |-> watchLog.completed]

\* runWatch up to the start of the goroutine, --count being one of counts and
\* the host one of envs
StartWatch(counts, envs) ==
  /\ pc = "idle"
  /\ mainG = "off"
  /\ \E continuous \in BOOLEAN, count \in counts, port \in WatchPorts, env \in envs :
       \E a \in WatchAnswers[env][port] :
         /\ watchFlags' = [watchContinuous |-> continuous, watchCount |-> count,
                           targetPort |-> port]
         /\ IF a.err
            THEN /\ onUpdateError(TRUE) = "exit"
                 /\ mainG' = "done"
                 /\ watchExit' = 1
                 /\ UNCHANGED <<watchState, ticker, watchLog>>
            ELSE /\ watchState' = [watchState EXCEPT !.processes = processMap(a.procs)]
                 /\ mainG' = "print"
                 /\ ticker' = [ticker EXCEPT !.pc = "select"]
                 /\ watchLog' = [watchLog EXCEPT !.completed = watchState']
                 /\ UNCHANGED watchExit
  /\ UNCHANGED <<tuiVars, pc, op, args, result, scanVars, sigc, seen>>

\* without --count (0, the default) and with it
RunWatch == StartWatch({0, 2}, WatchEnvs)

\* main: printProcesses(state) in continuous mode
MainPrint ==
  /\ WatchRunning
  /\ mainG = "print"
  /\ mainG' = "wait"
  /\ seen' = IF watchFlags.watchContinuous THEN Sees("main", {"processes"}) ELSE seen
  /\ UNCHANGED <<tuiVars, pc, op, args, result, scanVars, watchState, watchFlags, ticker, sigc, watchExit,
                 watchLog>>

\* an interrupt arrives: signal.Notify sends on c unless its buffer is full
Interrupt ==
  /\ WatchRunning
  /\ sigc = 0
  /\ sigc' = 1
  /\ UNCHANGED <<tuiVars, pc, op, args, result, scanVars, watchState, watchFlags, ticker, mainG, watchExit,
                 seen, watchLog>>

\* main: <-c
MainReceive ==
  /\ WatchRunning
  /\ mainG = "wait"
  /\ sigc = 1
  /\ sigc' = 0
  /\ mainG' = "stop"
  /\ UNCHANGED <<tuiVars, pc, op, args, result, scanVars, watchState, watchFlags, ticker, watchExit, seen,
                 watchLog>>

\* main: prints state.totalUpdates and returns
MainStop ==
  /\ WatchRunning
  /\ mainG = "stop"
  /\ seen' = Sees("main", {"totalUpdates"})
  /\ mainG' = "done"
  /\ watchExit' = 0
  /\ UNCHANGED <<tuiVars, pc, op, args, result, scanVars, watchState, watchFlags, ticker, sigc, watchLog>>

\* goroutine: case <-ticker.C.  The record of the run counts the first
\* MaxTicks ticks; a bounded run has no more ticks than that.
Ticking(bounded) ==
  /\ WatchRunning
  /\ ticker.pc = "select"
  /\ bounded => watchLog.ticks < MaxTicks
  /\ ticker' = [ticker EXCEPT !.pc = "discover"]
  /\ watchLog' = [watchLog EXCEPT !.ticks = IF @ < MaxTicks THEN @ + 1 ELSE @]
  /\ UNCHANGED <<tuiVars, pc, op, args, result, scanVars, watchState, watchFlags, mainG, sigc,
                 watchExit, seen>>

Tick == Ticking(TRUE)

\* goroutine: case <-c
TickerSignal ==
  /\ WatchRunning
  /\ ticker.pc = "select"
  /\ sigc = 1
  /\ sigc' = 0
  /\ seen' = Sees("ticker", {"totalUpdates"})
  /\ watchExit' = 0
  /\ UNCHANGED <<tuiVars, pc, op, args, result, scanVars, watchState, watchFlags, ticker, mainG, watchLog>>

\* the record of the run keeps the outcomes of the first MaxTicks calls
Logged(outcomes, outcome) ==
  IF Len(outcomes) < MaxTicks THEN Append(outcomes, outcome) ELSE outcomes

\* goroutine, in updateProcesses: the discovery call and its error return,
\* the host being one of envs at that moment
DiscoveryOn(envs) ==
  /\ WatchRunning
  /\ ticker.pc = "discover"
  /\ \E env \in envs :
       \E a \in WatchAnswers[env][watchFlags.targetPort] :
         IF a.err
         THEN /\ watchLog' = [watchLog EXCEPT !.outcomes = Logged(@, "err")]
              /\ IF onUpdateError(FALSE) = "exit"
                 THEN watchExit' = 1 /\ UNCHANGED ticker
                 ELSE ticker' = [ticker EXCEPT !.pc = "select"] /\ UNCHANGED watchExit
         ELSE /\ watchLog' = [watchLog EXCEPT !.outcomes = Logged(@, "ok")]
              /\ ticker' = [ticker EXCEPT !.pc = "detect", !.processes = a.procs]
              /\ UNCHANGED watchExit
  /\ UNCHANGED <<tuiVars, pc, op, args, result, scanVars, watchState, watchFlags, mainG, sigc, seen>>

Discovery == DiscoveryOn(WatchEnvs)

\* goroutine, in updateProcesses: state.changes = detectProcessChanges(...)
Detect ==
  /\ WatchRunning
  /\ ticker.pc = "detect"
  /\ \E changes \in detectProcessChanges(watchState.processes, ticker.processes) :
       watchState' = [watchState EXCEPT !.changes = changes]
  /\ ticker' = [ticker EXCEPT !.pc = "count"]
  /\ UNCHANGED <<tuiVars, pc, op, args, result, scanVars, watchFlags, mainG, sigc, watchExit, seen,
                 watchLog>>

\* goroutine, in updateProcesses: state.totalUpdates++
Count ==
  /\ WatchRunning
  /\ ticker.pc = "count"
  /\ watchState' = [watchState EXCEPT !.totalUpdates = @ + 1]
  /\ ticker' = [ticker EXCEPT !.pc = "swap"]
  /\ UNCHANGED <<tuiVars, pc, op, args, result, scanVars, watchFlags, mainG, sigc, watchExit, seen,
                 watchLog>>

\* goroutine, in updateProcesses: state.processes = newProcessMap; the
\* update is complete
Swap ==
  /\ WatchRunning
  /\ ticker.pc = "swap"
  /\ watchState' = [watchState EXCEPT !.processes = processMap(ticker.processes)]
  /\ ticker' = [ticker EXCEPT !.pc = "print"]
  /\ watchLog' = [watchLog EXCEPT !.completed = watchState']
  /\ UNCHANGED <<tuiVars, pc, op, args, result, scanVars, watchFlags, mainG, sigc, watchExit, seen>>

\* a goroutine that never counts its way to the end
countReachedNever(cycles, count) == FALSE

\* if watchCount > 0 && updateCycles >= watchCount
countReached(cycles, count) == count > 0 /\ cycles >= count

\* goroutine: prints the header, the table and the changes, counts the cycle
\* and exits when --count is reached
TickerPrint ==
  /\ WatchRunning
  /\ ticker.pc = "print"
  /\ seen' = Sees("ticker", {"processes", "changes", "totalUpdates"})
  /\ LET cycles == ticker.updateCycles + 1
     IN IF countReached(cycles, watchFlags.watchCount)
        THEN /\ ticker' = [ticker EXCEPT !.updateCycles = cycles]
             /\ watchExit' = 0
        ELSE /\ ticker' = [ticker EXCEPT !.updateCycles = cycles, !.pc = "select"]
             /\ UNCHANGED watchExit
  /\ UNCHANGED <<tuiVars, pc, op, args, result, scanVars, watchState, watchFlags, mainG, sigc, watchLog>>

WatchNext ==
  \/ RunWatch
  \/ MainPrint
  \/ Interrupt
  \/ MainReceive
  \/ MainStop
  \/ Tick
  \/ TickerSignal
  \/ Discovery
  \/ Detect
  \/ Count
  \/ Swap
  \/ TickerPrint

WatchSpec == Init /\ [][WatchNext]_vars

(***************************************************************************)
(* A watch started with --count that nobody interrupts, its ticker firing  *)
(* for ever.  The Go scheduler runs a goroutine that can take a step, and  *)
(* time.Ticker keeps sending: the steps of the goroutine and the tick are  *)
(* weakly fair.  Whether a discovery call succeeds is up to the host.      *)
(***************************************************************************)
\* the development host, with the twin server at times and with a failing
\* lsof at times
LiveEnvs ==
  {Host("linux", TRUE, FALSE, DevHostOutput, "full", "none"),
   Host("linux", TRUE, FALSE, TwinHostOutput, "full", "none"),
   Host("linux", TRUE, TRUE, "", "gone", "none")}

RunCountedWatch == StartWatch({1, 2}, LiveEnvs)

TickForever == Ticking(FALSE)

LiveDiscovery == DiscoveryOn(LiveEnvs)

\* the steps of the ticker goroutine, one of them enabled at a time
GoroutineStep ==
  \/ TickForever
  \/ LiveDiscovery
  \/ Detect
  \/ Count
  \/ Swap
  \/ TickerPrint

WatchLiveNext ==
  \/ RunCountedWatch
  \/ MainPrint
  \/ GoroutineStep

WatchLiveSpec == Init /\ [][WatchLiveNext]_vars /\ WF_vars(GoroutineStep)

(***************************************************************************)
(* Port scanning (cmd/scan.go).  scanPorts starts one goroutine per port;  *)
(* a goroutine sends on the buffered channel sem before it calls scanPort  *)
(* and receives from it afterwards, and the caller waits on the WaitGroup. *)
(* A worker is: its position, the idx and p it was started with, and the   *)
(* value scanPort returned to it.  The banner and the error of a result    *)
(* are left out.                                                           *)
(***************************************************************************)
\* the zero value of ScanResult
ZeroScanResult == [Port |-> 0, Host |-> "", Protocol |-> "", Status |-> "", Service |-> ""]

getServiceName(port) ==
  IF port = 22 THEN "SSH"
  ELSE IF port = 80 THEN "HTTP"
  ELSE IF port = 443 THEN "HTTPS"
  ELSE "Unknown"

\* what scanPort returns when the dial succeeds (open) or fails
scanPort(host, port, open) ==
  [Port |-> port, Host |-> host, Protocol |-> "tcp",
   Status |-> IF open THEN "open" ELSE "closed",
   Service |-> IF open THEN getServiceName(port) ELSE ""]

\* a send on a channel that never blocks
semHasRoomAlways(n, capacity) == TRUE

\* sem <- struct{}{} proceeds while the buffer of the channel has room
semHasRoom(n, capacity) == n < capacity

\* a wait that returns at once
waitDoneAtOnce(counter) == TRUE

\* wg.Wait() returns when the counter is zero
waitDone(counter) == counter = 0

\* ports of one scan
MaxScanPorts == 3

ScanPortPool == {80, 9}

\* --concurrent: the default, small limits, and values make() rejects or
\* that leave no room at all
ScanLimits == {50, 2, 1, 0, 0 - 1}

ScanRunning == scanMain.pc \in {"spawn", "wait"}

\* scanPorts: results, sem and wg are made
CallScanPorts ==
  /\ pc = "idle"
  /\ scanMain.pc = "off"
  /\ \E list \in SeqsUpTo(ScanPortPool, MaxScanPorts), limit \in ScanLimits :
       /\ scanCall' = [host |-> "localhost", ports |-> list, scanConcurrent |-> limit]
       /\ scanResults' = [i \in 1..Len(list) |-> ZeroScanResult]
       /\ workers' = [i \in 1..Len(list) |-> [pc |-> "none", idx |-> 0, p |-> 0,
                                               r |-> ZeroScanResult]]
       /\ writes' = [i \in 1..Len(list) |-> {}]
       \* make(chan struct{}, n) panics for a negative n
       /\ scanMain' = [scanMain EXCEPT !.pc = IF limit < 0 THEN "panic" ELSE "spawn", !.i = 1]
  /\ UNCHANGED <<tuiVars, pc, op, args, result, watchVars, sem, wg>>

\* scanPorts: one turn of the loop: wg.Add(1); go func(idx, p int) {...}(i, port)
Spawn ==
  /\ scanMain.pc = "spawn"
  /\ scanMain.i <= Len(scanCall.ports)
  /\ wg' = wg + 1
  /\ workers' = [workers EXCEPT ![scanMain.i] =
                   [pc |-> "acquire", idx |-> scanMain.i, p |-> scanCall.ports[scanMain.i],
                    r |-> ZeroScanResult]]
  /\ scanMain' = [scanMain EXCEPT !.i = @ + 1]
  /\ UNCHANGED <<tuiVars, pc, op, args, result, watchVars, scanCall, scanResults, sem, writes>>

\* scanPorts: the loop is over
SpawnDone ==
  /\ scanMain.pc = "spawn"
  /\ scanMain.i > Len(scanCall.ports)
  /\ scanMain' = [scanMain EXCEPT !.pc = "wait"]
  /\ UNCHANGED <<tuiVars, pc, op, args, result, watchVars, scanCall, scanResults, workers, sem, wg,
                 writes>>

\* worker: sem <- struct{}{}; scanPort is called
Acquire(w) ==
  /\ ScanRunning
  /\ workers[w].pc = "acquire"
  /\ semHasRoom(sem, scanCall.scanConcurrent)
  /\ sem' = sem + 1
  /\ workers' = [workers EXCEPT ![w].pc = "scan"]
  /\ UNCHANGED <<tuiVars, pc, op, args, result, watchVars, scanCall, scanMain, scanResults, wg,
                 writes>>

\* worker: scanPort returns
Dial(w) ==
  /\ ScanRunning
  /\ workers[w].pc = "scan"
  /\ \E open \in BOOLEAN :
       workers' = [workers EXCEPT ![w].pc = "store",
                                  ![w].r = scanPort(scanCall.host, workers[w].p, open)]
  /\ UNCHANGED <<tuiVars, pc, op, args, result, watchVars, scanCall, scanMain, scanResults, sem, wg,
                 writes>>

\* worker: results[idx] = ...
Store(w) ==
  /\ ScanRunning
  /\ workers[w].pc = "store"
  /\ scanResults' = [scanResults EXCEPT ![workers[w].idx] = workers[w].r]
  /\ writes' = [writes EXCEPT ![workers[w].idx] = @ \cup {w}]
  /\ workers' = [workers EXCEPT ![w].pc = "release"]
  /\ UNCHANGED <<tuiVars, pc, op, args, result, watchVars, scanCall, scanMain, sem, wg>>

\* worker: the deferred <-sem
Release(w) ==
  /\ ScanRunning
  /\ workers[w].pc = "release"
  /\ sem > 0
  /\ sem' = sem - 1
  /\ workers' = [workers EXCEPT ![w].pc = "finish"]
  /\ UNCHANGED <<tuiVars, pc, op, args, result, watchVars, scanCall, scanMain, scanResults, wg,
                 writes>>

\* worker: the deferred wg.Done(); the goroutine ends
Finish(w) ==
  /\ ScanRunning
  /\ workers[w].pc = "finish"
  /\ wg' = wg - 1
  /\ workers' = [workers EXCEPT ![w].pc = "exited"]
  /\ UNCHANGED <<tuiVars, pc, op, args, result, watchVars, scanCall, scanMain, scanResults, sem,
                 writes>>

\* scanPorts: wg.Wait(); return results
WaitReturn ==
  /\ scanMain.pc = "wait"
  /\ waitDone(wg)
  /\ scanMain' = [scanMain EXCEPT !.pc = "returned", !.results = scanResults]
  /\ UNCHANGED <<tuiVars, pc, op, args, result, watchVars, scanCall, scanResults, workers, sem, wg,
                 writes>>

ScanNext ==
  \/ CallScanPorts
  \/ Spawn
  \/ SpawnDone
  \/ \E w \in DOMAIN workers : Acquire(w)
  \/ \E w \in DOMAIN workers : Dial(w)
  \/ \E w \in DOMAIN workers : Store(w)
  \/ \E w \in DOMAIN workers : Release(w)
  \/ \E w \in DOMAIN workers : Finish(w)
  \/ WaitReturn

ScanSpec == Init /\ [][ScanNext]_vars

\* a step of the caller or of a worker; the Go scheduler runs every
\* goroutine that can take a step, and a dial ends within its timeout
ScanStep ==
  \/ Spawn
  \/ SpawnDone
  \/ \E w \in DOMAIN workers : Acquire(w) \/ Dial(w) \/ Store(w) \/ Release(w) \/ Finish(w)
  \/ WaitReturn

ScanLiveSpec == Init /\ [][ScanNext]_vars /\ WF_vars(ScanStep)

(***************************************************************************)
(* Enrichment on its own: enhanceProcesses applied to the records the      *)
(* parsers hand over, on hosts where any of the sub-lookups may fail.      *)
(***************************************************************************)
EnrichKinds == PtKinds \cup {"nocpu", "nomem", "nouser", "notime", "nocmd", "oddonly"}

\* records as getBasicProcesses returns them; a parser accepts a negative PID
BasicProcesses ==
  {NewProcess(301, 3000, "node", "tcp", "LISTEN", "*", ""),
   NewProcess(302, 5432, "postgres", "tcp", "LISTEN", "127.0.0.1", ""),
   NewProcess(302, 3000, "node", "tcp", "ESTABLISHED", "10.0.0.5", "10.0.0.9"),
   NewProcess(0 - 5, 8080, "java", "udp", "", "*", "")}

CallEnhanceProcesses ==
  /\ pc = "idle"
  /\ \E processes \in SeqsUpTo(BasicProcesses, MaxRecs), ptKind \in EnrichKinds :
       Call("enhanceProcesses", [processes |-> processes, ptKind |-> ptKind],
            enhanceProcesses(processes, ptKind))

EnrichNext ==
  \/ CallEnhanceProcesses
  \/ Return

EnrichSpec == Init /\ [][EnrichNext]_vars

(***************************************************************************)
(* GetSystemStats on its own, over discovery results of up to six records  *)
(* with equal and different memory figures.                                *)
(***************************************************************************)
\* six servers: three of them share the smallest memory figure
BusyHost ==
  <<Sample(21, 3000, "node", "dev", 1, 2 * F32Step),
    Sample(22, 3001, "node", "dev", 1, 1 * F32Step),
    Sample(23, 5432, "postgres", "dev", 2, 3 * F32Step),
    Sample(24, 3001, "ruby", "dev", 0, 1 * F32Step),
    Sample(25, 8080, "java", "root", 9, 4 * F32Step),
    Sample(26, 6379, "redis-server", "dev", 1, 1 * F32Step)>>

StatsSamples ==
  SeqsUpTo(SampleProcesses, MaxRecs) \cup {BusyHost, SubSeq(BusyHost, 1, 5)}

CallGetSystemStats ==
  /\ pc = "idle"
  /\ \E processes \in StatsSamples, discoveryErr \in BOOLEAN, cpuErr \in BOOLEAN,
        memErr \in BOOLEAN :
       \E r \in GetSystemStats([all |-> {[err |-> discoveryErr, procs |-> processes]}],
                               HostStats(cpuErr, memErr)) :
         Call("GetSystemStats",
              [processes |-> processes, discoveryErr |-> discoveryErr,
               sys |-> HostStats(cpuErr, memErr)], r)

StatsNext ==
  \/ CallGetSystemStats
  \/ Return

StatsSpec == Init /\ [][StatsNext]_vars

(***************************************************************************)
(* The gRPC ScanPorts handler (cmd/watch.go).  It validates the range of   *)
(* the request, builds the list of ports and hands it to scanPorts, whose  *)
(* call is summed up by what it returns: for every port of the list, in    *)
(* list order, the result of its scanPort call.  dialled is the list of    *)
(* ports handed to scanPorts, open the ports that accept a connection.     *)
(***************************************************************************)
maxPortRange == 10000

\* the range check that lets a start port above the end port through
portRangeErrorNoOrder(startPort, endPort) ==
  IF startPort < 1 \/ startPort > 65535
  THEN "invalid start port: " \o Itoa(startPort) \o " (must be 1-65535)"
  ELSE IF endPort < 1 \/ endPort > 65535
  THEN "invalid end port: " \o Itoa(endPort) \o " (must be 1-65535)"
  ELSE IF endPort - startPort + 1 > maxPortRange
  THEN "port range too large: " \o Itoa(endPort - startPort + 1) \o " (max "
         \o Itoa(maxPortRange) \o " ports allowed)"
  ELSE ""

\* the error of the range check, "" for none
portRangeError(startPort, endPort) ==
  IF startPort < 1 \/ startPort > 65535
  THEN "invalid start port: " \o Itoa(startPort) \o " (must be 1-65535)"
  ELSE IF endPort < 1 \/ endPort > 65535
  THEN "invalid end port: " \o Itoa(endPort) \o " (must be 1-65535)"
  ELSE IF startPort > endPort
  THEN "start port (" \o Itoa(startPort) \o ") must be less than or equal to end port ("
         \o Itoa(endPort) \o ")"
  ELSE IF endPort - startPort + 1 > maxPortRange
  THEN "port range too large: " \o Itoa(endPort - startPort + 1) \o " (max "
         \o Itoa(maxPortRange) \o " ports allowed)"
  ELSE ""

\* what scanPorts returns for a list of ports
scanPortsReturns(host, list, open) ==
  [i \in 1..Len(list) |-> scanPort(host, list[i], list[i] \in open)]

\* math.MaxInt32 is the largest int of the model, math.MinInt32 its negative
\* less one
safeIntToInt32(v) == IF v > MaxInt THEN MaxInt ELSE IF v < 0 - MaxInt - 1 THEN 0 - MaxInt - 1 ELSE v

ScanPortsHandler(req, open) ==
  LET host == IF req.Host = "" THEN "localhost" ELSE req.Host
      err == portRangeError(req.StartPort, req.EndPort)
  IN IF err # "" THEN [err |-> err, Results |-> <<>>, dialled |-> <<>>, host |-> host]
     ELSE LET list == [i \in 1..(req.EndPort - req.StartPort + 1) |-> req.StartPort + i - 1]
              scanned == scanPortsReturns(host, list, open)
          IN [err |-> "",
              Results |-> [i \in 1..Len(scanned) |->
                             [Port |-> safeIntToInt32(scanned[i].Port),
                              Status |-> scanned[i].Status,
                              Service |-> scanned[i].Service]],
              dialled |-> list, host |-> host]

\* start and end ports of a request
RequestPorts == {0 - 1, 0, 1, 79, 80, 82, 10000, 10001, 65535, 65536}

CallScanPortsHandler ==
  /\ pc = "idle"
  /\ \E host \in {"", "example.com"}, startPort \in RequestPorts, endPort \in RequestPorts,
        open \in {{}, {80, 82, 10000}} :
       LET req == [Host |-> host, StartPort |-> startPort, EndPort |-> endPort]
       IN Call("ScanPorts", [req |-> req, open |-> open], ScanPortsHandler(req, open))

GrpcNext ==
  \/ CallScanPortsHandler
  \/ Return

GrpcSpec == Init /\ [][GrpcNext]_vars

(***************************************************************************)
(* The interactive mode (cmd/interactive.go): a Bubble Tea program.  The   *)
(* program hands every message to Update, keeps the model Update returns   *)
(* and starts the commands it returns, each in its own goroutine; the      *)
(* message of a command comes back when the command is over, in any order. *)
(***************************************************************************)
\* the keys a user presses; in the filter input "y" is typed text
Keys == {"q", "ctrl+c", "/", "enter", "k", "s", "r", "h", "?", "esc", "y", "n", "up", "down"}

FilterKeys == {"esc", "enter", "y"}

\* characters typed into the filter input
MaxFilterLen == 1

\* commands of the program that are running at the same moment
MaxInFlight == 2

Cmd(kind, pid, force) == [kind |-> kind, pid |-> pid, force |-> force]

\* loadProcesses, loadStats, killProcess, tea.Quit, textinput.Blink
loadProcessesCmd == Cmd("loadProcesses", 0, FALSE)
loadStatsCmd == Cmd("loadStats", 0, FALSE)
\* a killProcess that calls KillProcess(pid, true)
killProcessCmdForced(pid) == Cmd("killProcess", pid, TRUE)
\* killProcess: KillProcess(pid, false)
killProcessCmd(pid) == Cmd("killProcess", pid, FALSE)
QuitCmd == Cmd("Quit", 0, FALSE)
BlinkCmd == Cmd("Blink", 0, FALSE)
TickCmd == Cmd("Tick", 0, FALSE)

KeyMsg(k) == [type |-> "KeyMsg", key |-> k, processes |-> <<>>, stats |-> "nil", err |-> ""]
WindowSizeMsg == [type |-> "WindowSizeMsg", key |-> "", processes |-> <<>>, stats |-> "nil", err |-> ""]
processesLoadedMsg(processes, err) ==
  [type |-> "processesLoadedMsg", key |-> "", processes |-> processes, stats |-> "nil",
   err |-> err]
statsLoadedMsg(stats, err) ==
  [type |-> "statsLoadedMsg", key |-> "", processes |-> <<>>, stats |-> stats, err |-> err]
processKilledMsg == [type |-> "processKilledMsg", key |-> "", processes |-> <<>>, stats |-> "nil", err |-> ""]
TickMsg == [type |-> "TickMsg", key |-> "", processes |-> <<>>, stats |-> "nil", err |-> ""]

\* m.list.SetItems: the cursor stays on an item of the list
SetItems(m, n) == IF m.cursor >= n THEN (IF n = 0 THEN 0 ELSE n - 1) ELSE m.cursor

updateFilteredList(m) ==
  LET query == ToLower(m.filterQuery)
      Matches(proc) ==
        \/ Contains(ToLower(proc.Command), query)
        \/ Contains(ToLower(proc.ServiceType), query)
        \/ Contains(ToLower(proc.User), query)
        \/ Contains(Itoa(proc.Port), query)
      filtered == IF m.filterQuery = "" THEN m.processes
                  ELSE SelectSeq(m.processes, Matches)
  IN [m EXCEPT !.filteredProcs = filtered, !.cursor = SetItems(m, Len(filtered))]

\* m.list.Update: the arrow keys move the cursor over the items
listUpdate(m, msg) ==
  IF msg.type = "KeyMsg" /\ msg.key = "down" /\ m.cursor + 1 < Len(m.filteredProcs)
  THEN [m EXCEPT !.cursor = m.cursor + 1]
  ELSE IF msg.type = "KeyMsg" /\ msg.key = "up" /\ m.cursor > 0
  THEN [m EXCEPT !.cursor = m.cursor - 1]
  ELSE m

\* m.textInput.Update: a typed character is added to the value
textInputUpdate(m, msg) ==
  IF msg.type = "KeyMsg" /\ Len(msg.key) = 1
  THEN [m EXCEPT !.textInput = m.textInput \o msg.key]
  ELSE m

\* the end of Update: the message goes on to the input or to the list
updateWidgets(m, msg, cmds) ==
  [m |-> IF m.state = "stateFilter" THEN textInputUpdate(m, msg) ELSE listUpdate(m, msg),
   cmds |-> cmds]

\* Update, case tea.KeyMsg
updateKey(m, msg) ==
  LET k == msg.key
      back(m2, cmds) == [m |-> m2, cmds |-> cmds]
  IN CASE m.state = "stateLoading" ->
            IF k \in {"q", "ctrl+c"} THEN back(m, <<QuitCmd>>)
            ELSE updateWidgets(m, msg, <<>>)
       [] m.state = "stateList" ->
            IF k \in {"q", "ctrl+c"} THEN back(m, <<QuitCmd>>)
            ELSE IF k = "/" THEN back([m EXCEPT !.state = "stateFilter"], <<BlinkCmd>>)
            ELSE IF k = "enter"
            THEN back(IF Len(m.filteredProcs) > 0
                      THEN [m EXCEPT !.selectedProc = m.filteredProcs[m.cursor + 1],
                                     !.state = "stateDetails"]
                      ELSE m, <<>>)
            ELSE IF k = "k"
            THEN back(IF Len(m.filteredProcs) > 0
                      THEN [m EXCEPT !.selectedProc = m.filteredProcs[m.cursor + 1],
                                     !.state = "stateKillConfirm"]
                      ELSE m, <<>>)
            ELSE IF k = "s"
            THEN updateWidgets([m EXCEPT !.state = "stateStats"], msg, <<loadStatsCmd>>)
            ELSE IF k = "r"
            THEN updateWidgets([m EXCEPT !.state = "stateLoading"], msg, <<loadProcessesCmd>>)
            ELSE IF k \in {"h", "?"}
            THEN updateWidgets([m EXCEPT !.showHelp = ~m.showHelp], msg, <<>>)
            ELSE updateWidgets(m, msg, <<>>)
       [] m.state = "stateFilter" ->
            IF k = "esc"
            THEN back(updateFilteredList([m EXCEPT !.state = "stateList",
                                                   !.filterQuery = "",
                                                   !.textInput = ""]), <<>>)
            ELSE IF k = "enter"
            THEN back(updateFilteredList([m EXCEPT !.state = "stateList",
                                                   !.filterQuery = m.textInput]), <<>>)
            ELSE updateWidgets(m, msg, <<>>)
       [] OTHER ->
            IF k \in {"esc", "q"} THEN back([m EXCEPT !.state = "stateList"], <<>>)
            ELSE IF k = "y" /\ m.state = "stateKillConfirm"
            THEN updateWidgets([m EXCEPT !.state = "stateLoading"], msg,
                               <<killProcessCmd(m.selectedProc.PID), loadProcessesCmd>>)
            ELSE IF k = "n" /\ m.state = "stateKillConfirm"
            THEN updateWidgets([m EXCEPT !.state = "stateList"], msg, <<>>)
            ELSE updateWidgets(m, msg, <<>>)

\* tuiModel.Update: the model and the commands it returns
Update(m, msg) ==
  CASE msg.type = "WindowSizeMsg" -> updateWidgets([m EXCEPT !.width = 80], msg, <<>>)
    [] msg.type = "KeyMsg" -> updateKey(m, msg)
    [] msg.type = "processesLoadedMsg" ->
         LET loaded == [m EXCEPT !.processes = msg.processes, !.err = msg.err]
         IN updateWidgets(IF msg.err = ""
                          THEN [updateFilteredList(loaded) EXCEPT !.state = "stateList",
                                                                  !.lastUpdate = "load"]
                          ELSE loaded, msg, <<>>)
    [] msg.type = "statsLoadedMsg" ->
         updateWidgets([m EXCEPT !.stats = msg.stats, !.err = msg.err], msg, <<>>)
    [] msg.type = "processKilledMsg" -> updateWidgets(m, msg, <<loadProcessesCmd>>)
    [] OTHER -> updateWidgets(m, msg, <<TickCmd>>)

\* tuiModel.View: what the screen shows
View(m) ==
  IF m.width = 0 THEN "Loading..."
  ELSE IF m.err # "" THEN "Error: Press 'q' to quit, 'r' to retry"
  ELSE IF m.state = "stateLoading" THEN "Loading processes..."
  ELSE IF m.state = "stateList" THEN (IF m.showHelp THEN "help" ELSE "list")
  ELSE IF m.state = "stateFilter" THEN "Filter processes:"
  ELSE IF m.state = "stateDetails" THEN "Process Details"
  ELSE IF m.state = "stateKillConfirm" THEN "Kill Process Confirmation"
  ELSE "System Statistics"

\* what loadProcesses and loadStats can bring back
TuiEnvs == {env \in CliEnvs : env.output # TwinHostOutput}

TuiAnswers == UNION {AllAnswers[env] : env \in TuiEnvs}

TuiStats ==
  {IF stats.err THEN statsLoadedMsg("nil", "stats") ELSE statsLoadedMsg("SystemStats", "") :
     stats \in UNION {GetSystemStats([all |-> AllAnswers[env]], HostStats(FALSE, memFails)) :
                        env \in TuiEnvs, memFails \in BOOLEAN}}

InFlightCount == inflight.loads + inflight.stats + Len(inflight.kills)

RECURSIVE Started(_, _, _)
\* the commands of a batch, started one by one
Started(run, cmds, i) ==
  IF i > Len(cmds) THEN run
  ELSE Started(CASE cmds[i].kind = "loadProcesses" -> [run EXCEPT !.loads = @ + 1]
                 [] cmds[i].kind = "loadStats" -> [run EXCEPT !.stats = @ + 1]
                 [] cmds[i].kind = "killProcess" -> [run EXCEPT !.kills = Append(@, cmds[i])]
                 [] OTHER -> run,
               cmds, i + 1)

Quits(cmds) == \E i \in 1..Len(cmds) : cmds[i].kind = "Quit"

Waited(cmds) ==
  Cardinality({i \in 1..Len(cmds) :
                 cmds[i].kind \in {"loadProcesses", "loadStats", "killProcess"}})

\* the program takes a message: Update, then the commands it returned
Handle(msg, run) ==
  LET next == Update(tui, msg)
  IN /\ program = "running"
     /\ run.loads + run.stats + Len(run.kills) + Waited(next.cmds) <= MaxInFlight
     /\ tui' = next.m
     /\ inflight' = Started(run, next.cmds, 1)
     /\ program' = IF Quits(next.cmds) THEN "quit" ELSE "running"
     /\ UNCHANGED <<pc, op, args, result, watchVars, scanVars>>

\* runInteractive: p.Run() starts the commands of Init
RunInteractive ==
  /\ pc = "idle"
  /\ program = "off"
  /\ program' = "running"
  /\ tui' = NewTuiModel
  /\ inflight' = Started(NoCommands, <<TickCmd, loadProcessesCmd>>, 1)
  /\ UNCHANGED <<pc, op, args, result, watchVars, scanVars>>

WindowSize == Handle(WindowSizeMsg, inflight)

Press ==
  \E k \in Keys :
    /\ tui.state = "stateFilter" => k \in FilterKeys
    /\ tui.state = "stateFilter" /\ Len(k) = 1 => Len(tui.textInput) < MaxFilterLen
    /\ Handle(KeyMsg(k), inflight)

ProcessesLoaded ==
  /\ inflight.loads > 0
  /\ \E a \in TuiAnswers :
       Handle(processesLoadedMsg(a.procs, IF a.err THEN "discovery" ELSE ""),
              [inflight EXCEPT !.loads = @ - 1])

StatsLoaded ==
  /\ inflight.stats > 0
  /\ \E msg \in TuiStats : Handle(msg, [inflight EXCEPT !.stats = @ - 1])

ProcessKilled ==
  \E i \in 1..Len(inflight.kills) :
    Handle(processKilledMsg,
           [inflight EXCEPT !.kills = SubSeq(@, 1, i - 1) \o SubSeq(@, i + 1, Len(@))])

SpinnerTick == Handle(TickMsg, inflight)

TuiNext ==
  \/ RunInteractive
  \/ WindowSize
  \/ Press
  \/ ProcessesLoaded
  \/ StatsLoaded
  \/ ProcessKilled
  \/ SpinnerTick

TuiSpec == Init /\ [][TuiNext]_vars

(***************************************************************************)
(* The properties.                                                         *)
(***************************************************************************)
Done(name) == pc = "done" /\ op = name

Discovered == pc = "done" /\ op \in {"GetProcessesOnPort", "GetAllProcesses"} /\ ~result.err

\* C1: for a target port P > 0, every record GetProcessesOnPort(P) returns has
\* Port = P, on the lsof path, the netstat fallback and the Windows path.
OnPortRecordsMatchTarget ==
  (Done("GetProcessesOnPort") /\ args.port > 0) =>
    \A i \in 1..Len(result.procs) : result.procs[i].Port = args.port

\* C1 happens: on Windows, netstat printed sockets of two ports and the call
\* returned the one of the target port.
OnPortFilteredOnWindows ==
  /\ Done("GetProcessesOnPort")
  /\ args.env.goos = "windows"
  /\ ~result.err
  /\ Len(result.procs) = 1
  /\ Len(parseWindowsOutput(args.env.output, 0, args.env.tlKind)) = 2

\* C2: every record GetAllProcesses or GetProcessesOnPort returns has PID > 0
\* and 1 <= Port <= 65535, whatever the discovery tool printed.
RecordsHavePositivePidAndValidPort ==
  Discovered =>
    \A i \in 1..Len(result.procs) :
      /\ result.procs[i].PID > 0
      /\ result.procs[i].Port >= 1
      /\ result.procs[i].Port <= 65535

\* C3: every record GetProcessesOnPort or GetAllProcesses returns has a
\* non-empty ServiceType, whatever its PID and whether or not the OS lookup
\* succeeded.
ServiceTypeNeverEmpty ==
  Discovered =>
    \A i \in 1..Len(result.procs) : result.procs[i].ServiceType # ""

\* the name ends in ":<digits>"
EndsInPort(name) ==
  LET k == LastIndex(name, ":")
  IN k > 0 /\ k < Len(name) /\ AllDigits(SubSeq(name, k + 1, Len(name)))

\* the number of that trailing ":<digits>"
TrailingPort(name) == Atoi(SubSeq(name, LastIndex(name, ":") + 1, Len(name))).val

\* C4: parseLsofLine with target port 0 drops a line of fewer than 9 tokens,
\* and for a line of at least 9 tokens with a numeric token 2 and a token 9
\* ending in ":<digits>" returns the record with PID = token 2, Command =
\* token 1 and Port = the number of that trailing ":<digits>".
LsofLineRecovered ==
  (Done("parseLsofLine") /\ args.targetPort = 0) =>
    LET f == Fields(args.line) IN
      IF Len(f) < 9 THEN result = <<>>
      ELSE (Atoi(f[2]).ok /\ EndsInPort(f[9])) =>
             /\ Len(result) = 1
             /\ result[1].PID = Atoi(f[2]).val
             /\ result[1].Command = f[1]
             /\ result[1].Port = TrailingPort(f[9])

\* C5: for a well-formed lsof line the record's Protocol is udp when the NODE
\* column (token 8) says UDP and tcp when it says TCP.
LsofProtocolFollowsNode ==
  (Done("parseLsofLine") /\ result # <<>>) =>
    LET f == Fields(args.line) IN
      /\ f[8] = "UDP" => result[1].Protocol = "udp"
      /\ f[8] = "TCP" => result[1].Protocol = "tcp"

\* C6: FindAvailablePorts(start, end, count) returns the first
\* min(count, number of free ports) unused ports of [start, end], strictly
\* ascending (a count below 0 gives none, like 0).
FindAvailableFirstFree ==
  (Done("FindAvailablePorts") /\ ~result.err) =>
    LET av == result.available
        free == {p \in args.startPort..args.endPort : p \notin result.usedPorts}
        want == IF args.count < 0 THEN 0
                ELSE IF args.count < Cardinality(free) THEN args.count
                ELSE Cardinality(free)
    IN /\ Len(av) = want
       /\ \A i \in 1..Len(av) : av[i] \in free
       /\ \A i, j \in 1..Len(av) : i < j => av[i] < av[j]
       /\ \A i \in 1..Len(av) : \A p \in free :
            p < av[i] => \E j \in 1..Len(av) : av[j] = p

\* C6 happens: the documented example, ports 3000, 3002 and 3005 in use.
FindAvailableExample ==
  /\ Done("FindAvailablePorts")
  /\ args.startPort = 3000 /\ args.endPort = 3010 /\ args.count = 5
  /\ result.usedPorts = {3000, 3002, 3005}
  /\ result.available = <<3001, 3003, 3004, 3006, 3007>>

\* the keyword list of the classifier, in its order
ServiceKeywords ==
  <<[words |-> {"node"}, label |-> "Node.js"],
    [words |-> {"python"}, label |-> "Python"],
    [words |-> {"java"}, label |-> "Java"],
    [words |-> {"go"}, label |-> "Go"],
    [words |-> {"ruby"}, label |-> "Ruby"],
    [words |-> {"php"}, label |-> "PHP"],
    [words |-> {"postgres"}, label |-> "PostgreSQL"],
    [words |-> {"mysql"}, label |-> "MySQL"],
    [words |-> {"redis"}, label |-> "Redis"],
    [words |-> {"nginx"}, label |-> "Nginx"],
    [words |-> {"apache"}, label |-> "Apache"],
    [words |-> {"docker"}, label |-> "Docker"],
    [words |-> {"code"}, label |-> "VS Code"],
    [words |-> {"chrome", "firefox"}, label |-> "Browser"]>>

\* C7: detectServiceType is first-match-wins in three stages: the well-known
\* port table whatever the command; else the first keyword of the list that
\* is a case-insensitive substring of the command; else Development for ports
\* 3000-3999 and 8000-9999, System below 1024, Unknown otherwise.
ClassifierFirstMatchWins ==
  Done("detectServiceType") =>
    LET port == args.port
        hits == {k \in 1..Len(ServiceKeywords) :
                   \E w \in ServiceKeywords[k].words :
                     Contains(ToLower(args.command), w)}
    IN /\ port = 5432 => result = "PostgreSQL"
       /\ (port = 59999 /\ args.command = "node-server") => result = "Node.js"
       /\ (port = 59999 /\ args.command = "unknownbin") => result = "Unknown"
       /\ result =
            IF port \in DOMAIN ServiceMap THEN ServiceMap[port]
            ELSE IF hits # {} THEN ServiceKeywords[Kth(hits, 1)].label
            ELSE IF port \in 3000..3999 \/ port \in 8000..9999 THEN "Development"
            ELSE IF port < 1024 THEN "System"
            ELSE "Unknown"

\* C7 happens: a well-known port wins over a command that names a runtime.
ClassifierPortBeatsCommand ==
  /\ Done("detectServiceType")
  /\ args.port = 5432
  /\ args.command = "node-server"
  /\ result = "PostgreSQL"

\* r holds the elements of s, each as often as in s
IsPermutation(r, s) ==
  /\ Len(r) = Len(s)
  /\ \A x \in {s[i] : i \in 1..Len(s)} \cup {r[i] : i \in 1..Len(r)} :
       Cardinality({i \in 1..Len(r) : r[i] = x}) = Cardinality({i \in 1..Len(s) : s[i] = x})

\* a comes no later than b in the order the field names
InFieldOrder(sortBy, a, b) ==
  IF sortBy \in {"pid", "PID"} THEN a.PID <= b.PID
  ELSE IF sortBy = "cpu" THEN a.CPUPercent >= b.CPUPercent
  ELSE IF sortBy \in {"memory", "mem"} THEN a.MemoryMB >= b.MemoryMB
  ELSE IF sortBy \in {"command", "cmd"} THEN ~StrLess(b.Command, a.Command)
  ELSE IF sortBy = "service" THEN ~StrLess(b.ServiceType, a.ServiceType)
  ELSE IF sortBy = "user" THEN ~StrLess(b.User, a.User)
  ELSE a.Port <= b.Port

\* C8: SortProcesses returns the records ordered by the named field:
\* non-decreasing for pid, port, command, service and user, non-increasing for
\* cpu and memory; an empty or unknown field orders by port.
SortedByField ==
  Done("SortProcesses") =>
    /\ IsPermutation(result, args.processes)
    /\ \A i, j \in 1..Len(result) :
         i < j => InFieldOrder(args.sortBy, result[i], result[j])

\* C8 happens: memory low, high, middle comes back high, middle, low.
SortedByMemoryExample ==
  /\ Done("SortProcesses")
  /\ args.sortBy = "memory"
  /\ [i \in 1..Len(args.processes) |-> args.processes[i].MemoryMB]
       = <<0, 2 * F32Step, F32Step>>
  /\ [i \in 1..Len(result) |-> result[i].MemoryMB] = <<2 * F32Step, F32Step, 0>>

\* r is s in the order of Less with equal elements in their order of s
\* (less[i][j]: element i of s is less than element j)
IsStableSort(r, s, less) ==
  \E f \in Perms(Len(s)) :
    /\ r = [i \in 1..Len(s) |-> s[f[i]]]
    /\ \A i, j \in 1..Len(s) :
         i < j => /\ ~less[f[j]][f[i]]
                  /\ ~less[f[i]][f[j]] => f[i] < f[j]

\* C9: sorting is stable: in the output of SortProcesses and in the
\* port-ordered output of GetAllProcesses, records with equal sort keys keep
\* the relative order of the input.
SortingIsStable ==
  /\ Done("SortProcesses") =>
       IsStableSort(result, args.processes,
                    [i \in 1..Len(args.processes) |->
                       [j \in 1..Len(args.processes) |->
                          sortLess(args.sortBy, args.processes[i], args.processes[j])]])
  /\ (Done("GetAllProcesses") /\ ~result.err) =>
       LET basic == GetProcessesOnPort(args.env, 0).procs
       IN IsStableSort(result.procs, basic, PortLess(basic))

\* the criteria as the claim words them: the user match by case
FilterCriteriaAsClaimed(proc, opts) ==
  /\ opts.Service # "" =>
       \/ Contains(ToLower(proc.ServiceType), ToLower(opts.Service))
       \/ Contains(ToLower(proc.Command), ToLower(opts.Service))
  /\ opts.User # "" => Contains(proc.User, opts.User)
  /\ opts.MemoryLimit > 0 => proc.MemoryMB > opts.MemoryLimit
  /\ opts.CPULimit > 0 => proc.CPUPercent > opts.CPULimit

FilterCriteriaAmended(proc, opts) ==
  /\ opts.Service # "" =>
       \/ Contains(ToLower(proc.ServiceType), ToLower(opts.Service))
       \/ Contains(ToLower(proc.Command), ToLower(opts.Service))
  /\ opts.User # "" => Contains(ToLower(proc.User), ToLower(opts.User))
  /\ opts.MemoryLimit > 0 => proc.MemoryMB > ToFloat32(opts.MemoryLimit)
  /\ opts.CPULimit > 0 => proc.CPUPercent > opts.CPULimit

Attempts(pids, pid) == {i \in 1..Len(pids) : pids[i] = pid}

\* every PID of the list is attempted, in list order, whatever came before
AllAttemptedInOrder ==
  /\ Len(result.attempts) = Len(args.pids)
  /\ \A i \in 1..Len(args.pids) : result.attempts[i].pid = args.pids[i]
  /\ DOMAIN result.results = {args.pids[i] : i \in 1..Len(args.pids)}

\* C11: KillProcesses attempts every PID of the list in list order whatever
\* the earlier outcomes, and the map holds for each PID the outcome of its
\* own attempt: nil if that kill succeeded, an error if it failed.
KillOutcomePerAttempt ==
  Done("KillProcesses") =>
    /\ AllAttemptedInOrder
    /\ \A i \in 1..Len(args.pids) :
         result.results[args.pids[i]] = result.attempts[i].err

\* C11 as the code has it: every PID is attempted in list order; the map holds
\* for each PID the outcome of the last attempt made for it, which for a PID
\* listed once is the outcome of killing it alone, whatever happened to the
\* other PIDs of the batch.
KillOutcomeLastAttempt ==
  Done("KillProcesses") =>
    /\ AllAttemptedInOrder
    /\ \A i \in 1..Len(args.pids) :
         LET pid == args.pids[i]
         IN /\ (\A j \in Attempts(args.pids, pid) : j <= i)
                 => result.results[pid] = result.attempts[i].err
            /\ Attempts(args.pids, pid) = {i}
                 => result.results[pid] = SignalError(args.table, pid)

\* C11 happens: a batch whose first kill fails and whose later kill succeeds.
KillBatchSurvivesFailure ==
  /\ Done("KillProcesses")
  /\ args.pids = <<999, 301>>
  /\ result.results[999] # ""
  /\ result.results[301] = ""

\* a run of a command of the command line has ended
Ran(names) == pc = "done" /\ op \in names

\* the user typed y or yes at the prompt
AnsweredYes(answer) ==
  ~answer.err /\ ToLower(TrimSpace(answer.line)) \in {"y", "yes"}

\* C12: in every command that terminates processes (kill by port, --pid,
\* filters or range, and the quick actions kill-dev, kill-node, kill-stale,
\* cleanup) a kill signal is sent only after the user answered the
\* confirmation prompt with y/yes or passed --yes.
NoSignalWithoutConfirmation ==
  (Ran({"runKill", "runQuick"}) /\ result.attempts # <<>>) =>
    \/ op = "runKill" /\ args.flags.killYes
    \/ result.prompted /\ AnsweredYes(args.answer)

\* the errors of a kill refused for lack of privilege
PermissionErrors == {"operation not permitted", "exit status 1"}

\* C13: the exit code of the kill command is 0 when every targeted process
\* was killed, 2 when a kill failed for lack of privilege, and 1 for other
\* errors (bad arguments, discovery failure, process not found).
ExitCodeDistinguishesOutcomes ==
  Ran({"runKill"}) =>
    LET errs == {result.attempts[i].err : i \in 1..Len(result.attempts)}
    IN /\ (result.attempts # <<>> /\ errs = {""}) => result.exit = 0
       /\ (errs \cap PermissionErrors # {}) => result.exit = 2
       /\ (errs \cap PermissionErrors = {} /\ (errs \ {""} # {} \/ result.discoveryFailed))
            => result.exit = 1

\* C14: a one-shot command (list, kill, quick actions, available, stats) in
\* which a discovery call failed never exits 0.
DiscoveryFailureExitsNonZero ==
  (Ran({"runList", "runKill", "runQuick", "runAvailable", "runStats"})
     /\ result.discoveryFailed) => result.exit # 0

\* the (PID, port) pairs of a slice of processes and of a snapshot
ScanPairs(processes) == {<<processes[i].PID, processes[i].Port>> : i \in 1..Len(processes)}

SnapshotPairs(m) == {<<m[k].PID, m[k].Port>> : k \in DOMAIN m}

HasSuffix(s, x) == Len(s) >= Len(x) /\ SubSeq(s, Len(s) - Len(x) + 1, Len(s)) = x

\* the positions of a change list that report the pair as NEW, as GONE
NewEventsOf(changes, pair) ==
  {i \in 1..Len(changes) :
     /\ HasPrefix(changes[i], "+ NEW: ")
     /\ HasSuffix(changes[i], " (PID " \o Itoa(pair[1]) \o ") on port " \o Itoa(pair[2]))}

GoneEventsOf(changes, pair) ==
  {i \in 1..Len(changes) :
     /\ HasPrefix(changes[i], "- GONE: ")
     /\ HasSuffix(changes[i], " (PID " \o Itoa(pair[1]) \o ") from port " \o Itoa(pair[2]))}

\* C15: on every successful watch update the change list holds exactly one
\* NEW event for each (PID, port) key of the new scan that the previous
\* snapshot lacks, exactly one GONE event for each key of the previous
\* snapshot that the new scan lacks, and nothing else; once the update is
\* complete the keys of the snapshot are the keys of the new scan.
WatchChangesAreTheDiff ==
  /\ ticker.pc \in {"count", "swap"} =>
       LET old == SnapshotPairs(watchState.processes)
           new == ScanPairs(ticker.processes)
           changes == watchState.changes
       IN /\ \A pair \in new \ old :
               Cardinality(NewEventsOf(changes, pair)) = 1 /\ GoneEventsOf(changes, pair) = {}
          /\ \A pair \in old \ new :
               Cardinality(GoneEventsOf(changes, pair)) = 1 /\ NewEventsOf(changes, pair) = {}
          /\ \A pair \in old \cap new :
               NewEventsOf(changes, pair) = {} /\ GoneEventsOf(changes, pair) = {}
          /\ Len(changes) = Cardinality(new \ old) + Cardinality(old \ new)
  /\ ticker.pc = "print" =>
       /\ SnapshotPairs(watchState.processes) = ScanPairs(ticker.processes)
       /\ DOMAIN watchState.processes =
            {Itoa(pair[1]) \o ":" \o Itoa(pair[2]) : pair \in ScanPairs(ticker.processes)}

\* C15 happens: an update that finds one process again, misses one and finds
\* a new one.
WatchUpdateAddsAndRemoves ==
  /\ ticker.pc = "swap"
  /\ SnapshotPairs(watchState.processes) = {<<301, 3000>>, <<301, 3001>>, <<305, 3005>>}
  /\ ScanPairs(ticker.processes) = {<<301, 3000>>, <<302, 3002>>, <<305, 3005>>}
  /\ Len(watchState.changes) = 2
  /\ NewEventsOf(watchState.changes, <<302, 3002>>) = {1}
  /\ GoneEventsOf(watchState.changes, <<301, 3001>>) = {2}

\* C16: what a reader of the watch state sees (the ticker goroutine printing
\* after an update or on a signal, the main goroutine printing the table in
\* continuous mode and the update count on exit) is, field by field, the
\* state as the last completed update left it.
NoPartialUpdateObserved ==
  \A field \in seen.fields : seen.view[field] = seen.completed[field]

\* the step of the ticker goroutine in which a periodic discovery call fails
FailedUpdate ==
  /\ ticker.pc = "discover"
  /\ Len(watchLog'.outcomes) = Len(watchLog.outcomes) + 1
  /\ watchLog'.outcomes[Len(watchLog'.outcomes)] = "err"

\* C17: a periodic update that fails at discovery leaves the snapshot, the
\* change list and the update counter as they were and does not end the
\* watch; the goroutine is back at its select, where the next tick starts the
\* next discovery; one tick makes one discovery call, so nothing is retried
\* inside an update.
FailedUpdateKeepsWatching ==
  /\ [](Len(watchLog.outcomes) <= watchLog.ticks)
  /\ [][FailedUpdate =>
          /\ watchState' = watchState
          /\ watchExit' = watchExit
          /\ ticker'.pc = "select"
          /\ watchLog'.ticks = watchLog.ticks]_vars

\* C17 happens: the update of the first tick failed and the update of the
\* second tick succeeded.
WatchRetriedAtNextTick ==
  /\ watchLog.outcomes = <<"err", "ok">>
  /\ watchLog.ticks = 2
  /\ ticker.pc = "print"
  /\ watchExit < 0

\* the workers whose scanPort call is running
InFlight == {w \in DOMAIN workers : workers[w].pc = "scan"}

\* C18: while scanPorts runs, the scanPort calls in flight are never more than
\* the limit given with --concurrent, whatever the number of ports and the
\* interleaving of the workers.
ConcurrentDialsBounded ==
  scanMain.pc \in {"spawn", "wait", "returned"} =>
    Cardinality(InFlight) <= scanCall.scanConcurrent

\* C18 happens: three ports under a limit of two, two calls in flight and the
\* third worker waiting for room.
ScanWorkerWaitsForRoom ==
  /\ scanCall.scanConcurrent = 2
  /\ Len(scanCall.ports) = 3
  /\ Cardinality(InFlight) = 2
  /\ \E w \in DOMAIN workers : workers[w].pc = "acquire"

\* C19: when scanPorts returns, slot i of the returned slice holds the result
\* a completed scanPort call gave for ports[i] (its Port is ports[i], its
\* Status open or closed) and every worker has ended; at no time has a slot
\* of the results been written by two workers.
ScanJoinsAllWorkers ==
  /\ scanMain.pc = "returned" =>
       /\ Len(scanMain.results) = Len(scanCall.ports)
       /\ \A i \in 1..Len(scanCall.ports) :
            /\ scanMain.results[i].Port = scanCall.ports[i]
            /\ scanMain.results[i].Status \in {"open", "closed"}
            /\ scanMain.results[i] = workers[i].r
            /\ workers[i].pc = "exited"
       /\ scanResults = scanMain.results
  /\ \A slot \in DOMAIN writes : Cardinality(writes[slot]) <= 1

\* C19 happens: a scan of three ports, one of them listed twice, returns with
\* open and closed results while one call at a time was allowed.
ScanReturnsAllResults ==
  /\ scanMain.pc = "returned"
  /\ scanCall.ports = <<80, 9, 80>>
  /\ scanCall.scanConcurrent = 1
  /\ scanMain.results[1].Status = "open"
  /\ scanMain.results[2].Status = "closed"
  /\ scanMain.results[3].Status = "open"

\* C20: enhanceProcesses returns as many records as it was given, in the same
\* order, with PID, Port, Command, Protocol, State, LocalAddr and RemoteAddr
\* unchanged; each of CPU, memory, user, start time and command line holds
\* the looked-up value when its own sub-lookup succeeded and its zero value
\* otherwise, whatever happened to the other sub-lookups and the other
\* records; a record whose PID is outside the 32-bit range is returned as it
\* was, without any lookup.
EnrichmentPreservesFrame ==
  Done("enhanceProcesses") =>
    /\ Len(result) = Len(args.processes)
    /\ \A i \in 1..Len(args.processes) :
         LET in == args.processes[i]
             out == result[i]
             asked == in.PID >= 0 /\ in.PID <= 2147483647
             p == ProcLookup(args.ptKind, in.PID)
             got(ok) == asked /\ p.found /\ ok
         IN /\ \A f \in {"PID", "Port", "Command", "Protocol", "State", "LocalAddr",
                          "RemoteAddr"} : out[f] = in[f]
            /\ out.CPUPercent = IF got(p.cpuOk) THEN p.cpu ELSE 0
            /\ out.MemoryMB = IF got(p.memOk) THEN p.rss ELSE 0
            /\ out.User = IF got(p.userOk) THEN p.user ELSE ""
            /\ out.StartTime = IF got(p.timeOk) THEN p.createTime ELSE 0
            /\ out.FullCommand = IF got(p.cmdOk) THEN p.cmdline ELSE ""
            /\ ~asked => out = in

\* C20 happens: the user lookup fails on the host; the record with a PID out
\* of range comes back untouched and the one after it has every metric but
\* the user.
EnrichmentSurvivesFailedLookup ==
  /\ Done("enhanceProcesses")
  /\ args.ptKind = "nouser"
  /\ Len(args.processes) = 2
  /\ args.processes[1].PID < 0
  /\ result[1] = args.processes[1]
  /\ result[2].PID = 301
  /\ result[2].User = ""
  /\ result[2].CPUPercent > 0
  /\ result[2].MemoryMB > 0
  /\ result[2].StartTime > 0
  /\ result[2].FullCommand # ""

\* C21: for a discovery result of n records GetSystemStats returns
\* TotalProcesses = n, ListeningPorts = the number of distinct ports, and as
\* TopPortUsers min(5, n) of the records, in non-increasing memory order, no
\* record left out having more memory than one included; when only the CPU
\* sampling fails the call succeeds with a CPU figure of 0.
StatsCountAndTopFive ==
  Done("GetSystemStats") =>
    LET procs == args.processes
        n == Len(procs)
        top == result.TopPortUsers
        k == IF n < 5 THEN n ELSE 5
    IN /\ result.err <=> (args.discoveryErr \/ args.sys.memErr)
       /\ ~result.err =>
            /\ result.TotalProcesses = n
            /\ result.ListeningPorts = Cardinality({procs[i].Port : i \in 1..n})
            /\ result.CPUUsagePercent = IF args.sys.cpuErr THEN 0 ELSE args.sys.cpu
            /\ Len(top) = k
            /\ \A i \in 1..k, j \in 1..k : i < j => top[i].MemoryMB >= top[j].MemoryMB
            /\ \E chosen \in SUBSET (1..n) :
                 /\ Cardinality(chosen) = k
                 /\ \A r \in {top[i] : i \in 1..k} \cup {procs[i] : i \in chosen} :
                      Cardinality({i \in 1..k : top[i] = r})
                        = Cardinality({i \in chosen : procs[i] = r})
                 /\ \A i \in chosen, j \in (1..n) \ chosen :
                      procs[j].MemoryMB <= procs[i].MemoryMB

\* C21 happens: six records on five ports while the CPU sampling fails; the
\* five kept are led by the largest and one of the three smallest is left out.
StatsTopFiveOfSix ==
  /\ Done("GetSystemStats")
  /\ args.processes = BusyHost
  /\ args.sys.cpuErr
  /\ ~result.err
  /\ result.TotalProcesses = 6
  /\ result.ListeningPorts = 5
  /\ result.CPUUsagePercent = 0
  /\ Len(result.TopPortUsers) = 5
  /\ result.TopPortUsers[1].PID = 25
  /\ result.TopPortUsers[5].PID = 26

\* C22: `portctl quick kill-stale` sends its kills to exactly the discovered
\* processes whose start time is known and lies more than one hour (3600 s)
\* before now.
KillStaleSelectsOldProcesses ==
  (Ran({"runQuick"}) /\ args.action = "kill-stale") =>
    \A all \in AllAnswers[args.env] :
      ~all.err =>
        {result.attempts[i].pid : i \in 1..Len(result.attempts)}
          = {all.procs[i].PID :
               i \in {j \in 1..Len(all.procs) :
                        /\ all.procs[j].StartTime # 0
                        /\ Now - all.procs[j].StartTime > 3600}}

\* a watch with --count has ended by its count
CountedOut ==
  watchExit = 0 /\ ticker.updateCycles = watchFlags.watchCount

DiscoverySucceeds == ticker.pc = "discover" /\ ticker'.pc = "detect"

NetstatRecordCarriesNoGarbage ==
  (Discovered /\ args.env.goos = "linux" /\ ~args.env.lsof) =>
    \A i \in 1..Len(result.procs) :
      LET r == result.procs[i]
          token == Itoa(r.PID) \o "/" \o r.Command
      IN /\ r.State # token
         /\ r.RemoteAddr # token
         /\ HasPrefix(r.Protocol, "udp") => r.State = "LISTEN"

\* C25: the gRPC ScanPorts handler returns an error and hands no port to the
\* scanner when the start or end port is outside 1..65535, start > end, or
\* the inclusive range holds more than 10000 ports; otherwise it scans
\* exactly the ports start..end and returns one result per port in ascending
\* port order.
ScanPortsValidatesRange ==
  Done("ScanPorts") =>
    LET first == args.req.StartPort
        last == args.req.EndPort
        refused == \/ first \notin 1..65535
                   \/ last \notin 1..65535
                   \/ first > last
                   \/ last - first + 1 > 10000
    IN IF refused
       THEN result.err # "" /\ result.dialled = <<>> /\ result.Results = <<>>
       ELSE /\ result.err = ""
            /\ Len(result.dialled) = last - first + 1
            /\ Len(result.Results) = last - first + 1
            /\ \A i \in 1..(last - first + 1) :
                 /\ result.dialled[i] = first + i - 1
                 /\ result.Results[i].Port = first + i - 1
                 /\ result.Results[i].Status
                      = IF first + i - 1 \in args.open THEN "open" ELSE "closed"

\* C25 happens: a request for the ports 1..10000, the largest range allowed,
\* is scanned in full and finds port 80 open.
ScanPortsLargestRange ==
  /\ Done("ScanPorts")
  /\ args.req.StartPort = 1
  /\ args.req.EndPort = 10000
  /\ result.err = ""
  /\ Len(result.Results) = 10000
  /\ result.Results[80].Status = "open"
  /\ result.Results[81].Status = "closed"

ErrorShown(m) == View(m) = "Error: Press 'q' to quit, 'r' to retry"

Has(cmds, kind) == \E i \in 1..Len(cmds) : cmds[i].kind = kind

\* C26: whenever the interactive mode shows an error with the hint "Press 'q'
\* to quit, 'r' to retry", the key 'r' starts a new process load, and a
\* successful load after it clears the error and shows the process list; in
\* every state the error can be shown in, the failed initial load included.
RetryReloadsFromEveryErrorScreen ==
  (program = "running" /\ ErrorShown(tui)) =>
    LET retried == Update(tui, KeyMsg("r"))
    IN /\ Has(retried.cmds, "loadProcesses")
       /\ \A a \in TuiAnswers :
            ~a.err =>
              LET loaded == Update(retried.m, processesLoadedMsg(a.procs, "")).m
              IN loaded.err = "" /\ View(loaded) \in {"list", "help"}

\* C27: the interactive mode starts a kill only when 'y' is pressed in the
\* kill confirmation, for the PID of the process that was selected when the
\* confirmation was entered, and never forced; 'n', Esc and 'q' leave the
\* confirmation without a kill; no other state or key starts one.
KillOnlyOnConfirmedYes ==
  [][/\ Len(inflight'.kills) > Len(inflight.kills) =>
          /\ tui.state = "stateKillConfirm"
          /\ tui' = Update(tui, KeyMsg("y")).m
          /\ inflight'.kills
               = Append(inflight.kills,
                        [kind |-> "killProcess", pid |-> tui.selectedProc.PID,
                         force |-> FALSE])
     /\ (tui.state = "stateKillConfirm" /\ tui'.state = "stateKillConfirm")
          => tui'.selectedProc = tui.selectedProc
     /\ (tui.state # "stateKillConfirm" /\ tui'.state = "stateKillConfirm")
          => /\ tui.cursor < Len(tui.filteredProcs)
             /\ tui'.selectedProc = tui.filteredProcs[tui.cursor + 1]
     /\ \A k \in Keys :
          LET pressed == Update(tui, KeyMsg(k))
          IN /\ (tui.state = "stateKillConfirm" /\ k \in {"n", "esc", "q"})
                  => pressed.m.state = "stateList" /\ pressed.cmds = <<>>
             /\ Has(pressed.cmds, "killProcess")
                  => tui.state = "stateKillConfirm" /\ k = "y"]_vars

\* C27 happens: the list is filtered to the ruby server, the third process
\* found, its kill is confirmed with 'y', and the kill of PID 305 is
\* running while the list reloads.
KillConfirmedForFilteredProcess ==
  /\ program = "running"
  /\ tui.filterQuery = "y"
  /\ tui.state = "stateLoading"
  /\ tui.selectedProc.PID = 305
  /\ tui.selectedProc = tui.processes[3]
  /\ inflight.kills = <<[kind |-> "killProcess", pid |-> 305, force |-> FALSE]>>

\* C28: scanPorts always returns: for every list of ports and every value of
\* --concurrent, when every connection attempt ends within its timeout, all
\* workers get and give back the semaphore and the caller passes wg.Wait().
ScanPortsAlwaysReturns == (scanMain.pc # "off") ~> (scanMain.pc = "returned")

\* the PIDs of a list of records or of attempts, in list order
PidsOf(list, field) == [i \in 1..Len(list) |-> IF field = "PID" THEN list[i].PID ELSE list[i].pid]

\* the first occurrence of every value of a list, in list order
FirstOfEach(list) ==
  LET keep == {i \in 1..Len(list) : \A j \in 1..(i - 1) : list[j] # list[i]}
  IN [k \in 1..Cardinality(keep) |-> list[Kth(keep, k)]]

\* a run of portctl kill without --pid that got as far as the kills
KilledByTarget ==
  /\ Ran({"runKill"})
  /\ args.flags.killPID = 0
  /\ result.attempts # <<>>

\* the records the run collected, in the order it collected them, for the
\* answer all of GetAllProcesses
Collected(all) ==
  LET found == Discover(args.env)
      filtering == args.flags.killService # "" \/ args.flags.killUser # ""
                     \/ args.flags.killOlder # ""
  IN (IF filtering THEN getFilteredProcesses(all, args.flags).procs ELSE <<>>)
       \o (IF args.flags.killRange # ""
           THEN getProcessesInRange(found, args.flags.killRange).procs ELSE <<>>)
       \o portArgsFrom(found, args.portArgs, 1).procs

\* C29: within one run of portctl kill every PID gets at most one kill
\* attempt, however many ports, filters or sockets led to it: the target
\* list is cut down to the first record of each PID, in the original order,
\* before KillProcesses, so the result map has one entry per target.
KillAttemptsEachPidOnce ==
  KilledByTarget =>
    /\ \A i, j \in 1..Len(result.attempts) :
         i # j => result.attempts[i].pid # result.attempts[j].pid
    /\ Cardinality({result.attempts[i].pid : i \in 1..Len(result.attempts)})
         = Len(result.attempts)
    /\ \E all \in AllAnswers[args.env] :
         PidsOf(result.attempts, "pid") = FirstOfEach(PidsOf(Collected(all), "PID"))

\* C29 happens: on the twin host the ports 3000 and 3001 both lead to PID
\* 301 and port 3005 to PID 305; PID 301 is killed once, then PID 305.
KillTwinSocketsOnce ==
  /\ KilledByTarget
  /\ args.portArgs = <<"3000", "3001", "3005">>
  /\ args.env.output = TwinHostOutput
  /\ Len(OnPortAnswers[args.env][3000].procs) = 1
  /\ OnPortAnswers[args.env][3001].procs[1].PID = 301
  /\ PidsOf(result.attempts, "pid") = <<301, 305>>

\* the PIDs of the records of a list that pass the test on every filter given
MatchingPids(all, flags) ==
  {all.procs[i].PID :
     i \in {n \in 1..Len(all.procs) :
              LET proc == all.procs[n]
              IN /\ flags.killService = ""
                      \/ Contains(ToLower(proc.ServiceType), ToLower(flags.killService))
                      \/ Contains(ToLower(proc.Command), ToLower(flags.killService))
                 /\ flags.killUser = ""
                      \/ Contains(ToLower(proc.User), ToLower(flags.killUser))
                 /\ flags.killOlder = ""
                      \/ (proc.StartTime # 0
                            /\ Now - proc.StartTime >= ParseDuration(flags.killOlder).val)}}

\* the PIDs discovery reports on the ports of a set
PidsOnPorts(env, ports) ==
  UNION {{OnPortAnswers[env][port].procs[i].PID :
            i \in 1..Len(OnPortAnswers[env][port].procs)} : port \in ports}

\* the ports of --range and of the arguments of a run
RangePorts(flags) ==
  IF flags.killRange = "" THEN {}
  ELSE LET parts == Split(flags.killRange, "-")
       IN Atoi(TrimSpace(parts[1])).val..Atoi(TrimSpace(parts[2])).val

ArgPorts(portArgs) == {Atoi(portArgs[i]).val : i \in 1..Len(portArgs)}

\* C30: the processes portctl kill (without --pid) goes for are the union of
\* the processes that pass all the --service, --user and --older filters
\* given, the processes on any port of --range and the processes on any
\* port argument: ports do not narrow the filters, nor filters the ports.
KillTargetsAreTheUnion ==
  KilledByTarget =>
    \E all \in AllAnswers[args.env] :
      {result.attempts[i].pid : i \in 1..Len(result.attempts)}
        = (IF args.flags.killService # "" \/ args.flags.killUser # ""
                \/ args.flags.killOlder # ""
           THEN MatchingPids(all, args.flags) ELSE {})
          \cup PidsOnPorts(args.env, RangePorts(args.flags))
          \cup PidsOnPorts(args.env, ArgPorts(args.portArgs))

\* C30 happens: --service node --range 3004-3005 with the port argument 3000
\* on the development host: the filter finds PIDs 301 and 302, the range
\* PID 305, the argument PID 301 again, and the three are killed.
KillFilterRangeAndPort ==
  /\ KilledByTarget
  /\ args.flags.killService = "node"
  /\ args.flags.killRange = "3004-3005"
  /\ args.portArgs = <<"3000">>
  /\ args.env.output = DevHostOutput
  /\ PidsOf(result.attempts, "pid") = <<301, 302, 305>>

====
